---- MODULE Spec2Model ----
(***************************************************************************)
(* Payment reconciliation and entitlement granting of the course bot.      *)
(*                                                                         *)
(* The relational store (payments, subscriptions, enrollments), the        *)
(* gateways' own view of each payment, and the request handlers of         *)
(* app_server.py and bot.py.  Handlers are asyncio coroutines of one       *)
(* process: the code between two awaits runs without interleaving          *)
(* ("running" names the coroutine that holds the event loop), every store  *)
(* call commits its own transaction, so a process crash can fall between   *)
(* any two store calls.  Time is counted in days.                          *)
(*                                                                         *)
(* Each function is modelled by its body, called with the arguments its    *)
(* signature declares.  The handlers' calls                                *)
(* db.find_payment_by_external_id(name, external_id) (app_server.py 141,   *)
(* 169) pass the keyword-only parameters provider and external_id          *)
(* positionally; they are modelled as the lookup they name.  Likewise      *)
(* start_pix_checkout hands create_pix_payment an idempotency_key it does  *)
(* not declare; the checkout is modelled with both outcomes of the         *)
(* gateway call, the payment created or the call raising.                  *)
(***************************************************************************)
EXTENDS Integers, Sequences, FiniteSets, TLC

\* ---- bounds ----
MaxPayments == 1
MaxTime == 1

\* ---- program constants ----
NULL == -1
SubscriptionDays == 30
LessonIntervalDays == 7
MockBase == 100
AdminChatId == 9

Users == {1, 2}
Callers == Users \cup {AdminChatId}
Tasks == {"t1", "t2"}
NoTask == "none"

Gateways == {"mercadopago_pix", "yookassa", "mock"}
\* the ledger of the checkout specification holds one row more
MaxRows == MaxPayments + 1

PaymentIds == 1..(MaxPayments + 1)
GatewayExtIds == 1..MaxRows

\* MockYooKassaProvider.create_payment: external_id = "mock_" + idempotency_key
\* the mock's external id, were it not derived from the idempotency key
MockExternalId_fixed(idempotency_key) == MockBase + 1

MockExternalId(idempotency_key) == MockBase + idempotency_key

ExtIds == GatewayExtIds \cup {MockExternalId(k) : k \in 1..MaxRows}

VARIABLES cfg, payments, subscriptions, enrollments, remote, now, task, running, last,
          sched, live, rem, adapter

vars == <<cfg, payments, subscriptions, enrollments, remote, now, task, running, last,
          sched, live, rem, adapter>>

\* the state of the two background loops (the lesson scheduler's pass, the
\* live_sessions table and the reminder scheduler's pass) and the record of
\* the calls made on the mock adapter
loops == <<sched, live, rem, adapter>>

\* ------------------------------------------------------------------------
\* Gateway adapters
\* ------------------------------------------------------------------------

\* the spelling variants and unknown values a reply's "status" may carry;
\* NoStatus: the key is missing or null
NoStatus == "null"
MpStatuses == {"approved", "pending", "rejected", "cancelled", "refunded", "charged_back"}
YkStatuses == {"pending", "waiting_for_capture", "succeeded", "canceled"}
RawStatuses ==
    MpStatuses \cup YkStatuses
      \cup {NoStatus, "", "in_process", "authorized", "APPROVED", "Succeeded", "paid"}

\* str.lower() on the values above
Lower(text) ==
    CASE text = "APPROVED" -> "approved"
      [] text = "Succeeded" -> "succeeded"
      [] OTHER -> text

\* (j.get("status") or "").lower()
NormalizeStatus(raw) == IF raw \in {NoStatus, ""} THEN "" ELSE Lower(raw)

\* the mapping of MercadoPagoPixProvider.fetch_payment_status, were a payment
\* awaiting capture counted as paid
MpMapStatus_authorized(status) ==
    IF status \in {"approved", "authorized"} THEN "paid"
    ELSE IF status \in {"cancelled"} THEN "cancelled"
    ELSE IF status \in {"rejected", "refunded", "charged_back"} THEN "cancelled"
    ELSE "pending"

\* MercadoPagoPixProvider.fetch_payment_status: native status -> 3-valued
MpMapStatus(status) ==
    IF status = "approved" THEN "paid"
    ELSE IF status \in {"cancelled"} THEN "cancelled"
    ELSE IF status \in {"rejected", "refunded", "charged_back"} THEN "cancelled"
    ELSE "pending"

\* YooKassaProvider.fetch_payment_status
YkMapStatus(status) ==
    IF status = "succeeded" THEN "paid"
    ELSE IF status = "canceled" THEN "cancelled"
    ELSE "pending"

\* MockYooKassaProvider.fetch_payment_status, were a payment it does not
\* know reported as cancelled
MockFetchStatus_strict(state, external_id) ==
    IF state[external_id] = "absent" THEN "cancelled" ELSE state[external_id]

\* MockYooKassaProvider.fetch_payment_status: _state.get(external_id, "pending")
MockFetchStatus(state, external_id) ==
    IF state[external_id] = "absent" THEN "pending" ELSE state[external_id]

\* MockYooKassaProvider.create_payment, were it to start the payment anew
mock_create_payment_reset(state, idempotency_key) ==
    LET external_id == MockExternalId(idempotency_key) IN
    [state |-> [state EXCEPT ![external_id] = "pending"], external_id |-> external_id]

\* MockYooKassaProvider.create_payment: _state.setdefault(external_id, "pending")
mock_create_payment(state, idempotency_key) ==
    LET external_id == MockExternalId(idempotency_key) IN
    [state |-> IF state[external_id] = "absent"
               THEN [state EXCEPT ![external_id] = "pending"] ELSE state,
     external_id |-> external_id]

\* MockYooKassaProvider.mark_paid / mark_cancelled
mock_mark(state, external_id, status) == [state EXCEPT ![external_id] = status]

\* provider.fetch_payment_status(external_id=...) on gateway g
fetch_payment_status(g, external_id) ==
    IF g = "mock" THEN MockFetchStatus(remote[g], external_id)
    ELSE IF g = "mercadopago_pix" THEN MpMapStatus(NormalizeStatus(remote[g][external_id]))
    ELSE YkMapStatus(NormalizeStatus(remote[g][external_id]))

\* the id a gateway issues for a new payment
NewExternalId(g, idempotency_key) ==
    IF g = "mock" THEN MockExternalId(idempotency_key)
    ELSE Cardinality({e \in GatewayExtIds : remote[g][e] # "absent"}) + 1

\* the amount on_callback passes (cfg.price_cents) and the currency of the
\* service: BRL for PIX, start_checkout's default RUB for the others
PriceCents == "price_cents"
ServiceCurrency(svc) == IF svc = "pay_pix" THEN "BRL" ELSE "RUB"

\* yk_provider if configured, else mock_provider (app_server.py pay_yk)
YkServiceGateway == IF cfg.yk THEN "yookassa" ELSE "mock"

ServiceGateway(svc) ==
    CASE svc = "pay_pix" -> "mercadopago_pix"
      [] svc = "pay_yk" -> YkServiceGateway
      [] svc = "pay_mock" -> "mock"

\* ------------------------------------------------------------------------
\* Store (db.py)
\* ------------------------------------------------------------------------
NoSubscription == [status |-> "none", expires_at |-> NULL, updated_at |-> NULL]
NoEnrollment == [next_lesson_index |-> 0, next_lesson_at |-> NULL, last_sent_at |-> NULL]

\* set_subscription, were the days added to an expiry still ahead
set_subscription_extending(subs, user_id, active, days) ==
    LET prev == subs[user_id].expires_at
        from == IF prev # NULL /\ prev > now THEN prev ELSE now
    IN [subs EXCEPT ![user_id] =
          [status |-> IF active THEN "active" ELSE "revoked",
           expires_at |-> IF (~active) \/ days = NULL THEN NULL ELSE from + days,
           updated_at |-> now]]

set_subscription(subs, user_id, active, days) ==
    [subs EXCEPT ![user_id] =
        [status |-> IF active THEN "active" ELSE "revoked",
         expires_at |-> IF (~active) \/ days = NULL THEN NULL ELSE now + days,
         updated_at |-> now]]

\* is_subscribed: (ok, expires_at, reason), were an entitlement to count up
\* to and including its expiry instant
is_subscribed_inclusive(subs, user_id) ==
    LET row == subs[user_id] IN
    IF row = NoSubscription THEN <<FALSE, NULL, "no_subscription">>
    ELSE IF row.status # "active" THEN <<FALSE, row.expires_at, "revoked">>
    ELSE IF row.expires_at # NULL /\ now > row.expires_at
         THEN <<FALSE, row.expires_at, "expired">>
    ELSE <<TRUE, row.expires_at, "active">>

\* is_subscribed: (ok, expires_at, reason)
is_subscribed(subs, user_id) ==
    LET row == subs[user_id] IN
    IF row = NoSubscription THEN <<FALSE, NULL, "no_subscription">>
    ELSE IF row.status # "active" THEN <<FALSE, row.expires_at, "revoked">>
    ELSE IF row.expires_at # NULL /\ now >= row.expires_at
         THEN <<FALSE, row.expires_at, "expired">>
    ELSE <<TRUE, row.expires_at, "active">>

\* pid = _new_id(): an id no row has yet
new_id(pays) == Len(pays) + 1

\* the INSERT of create_payment, were it to replace the owner's unfinished
\* row of the same gateway instead of adding one
create_payment_reusing(pays, user_id, provider, amount_cents, currency) ==
    LET pid == new_id(pays)
        row == [id |-> pid, user_id |-> user_id, provider |-> provider, status |-> "pending",
                amount_cents |-> amount_cents, currency |-> currency,
                external_id |-> NULL, idempotency_key |-> pid, paid_at |-> NULL]
        old == {i \in DOMAIN pays : /\ pays[i].user_id = user_id /\ pays[i].provider = provider
                                     /\ pays[i].status = "pending" /\ pays[i].external_id = NULL}
    IN IF old = {} THEN Append(pays, row)
       ELSE [i \in DOMAIN pays |-> IF i \in old THEN [row EXCEPT !.id = i, !.idempotency_key = i]
                                                ELSE pays[i]]

create_payment(pays, user_id, provider, amount_cents, currency) ==
    LET pid == new_id(pays) IN
    Append(pays, [id |-> pid, user_id |-> user_id, provider |-> provider, status |-> "pending",
                  amount_cents |-> amount_cents, currency |-> currency,
                  external_id |-> NULL, idempotency_key |-> pid, paid_at |-> NULL])

\* attach_pix_details / attach_checkout_details
attach_checkout_details(pays, payment_id, external_id) ==
    [pays EXCEPT ![payment_id].external_id = external_id]

HasPayment(pays, payment_id) == payment_id \in DOMAIN pays

\* rows selected by find_payment_by_external_id
find_payment_by_external_id_anyprovider(pays, provider, external_id) ==
    {i \in DOMAIN pays : pays[i].external_id = external_id}

find_payment_by_external_id(pays, provider, external_id) ==
    {i \in DOMAIN pays : pays[i].provider = provider /\ pays[i].external_id = external_id}

\* mark_payment_paid: the new table, the returned user id, and whether the
\* UPDATE was issued
mark_payment_paid_norecheck(pays, payment_id) ==
    IF ~HasPayment(pays, payment_id)
    THEN [pays |-> pays, ret |-> NULL, wrote |-> FALSE]
    ELSE [pays |-> [pays EXCEPT ![payment_id].status = "paid", ![payment_id].paid_at = now],
          ret |-> pays[payment_id].user_id, wrote |-> TRUE]

\* mark_payment_paid, were it to return a user only when it wrote the row
mark_payment_paid_once(pays, payment_id) ==
    IF ~HasPayment(pays, payment_id) \/ pays[payment_id].status = "paid"
    THEN [pays |-> pays, ret |-> NULL, wrote |-> FALSE]
    ELSE [pays |-> [pays EXCEPT ![payment_id].status = "paid", ![payment_id].paid_at = now],
          ret |-> pays[payment_id].user_id, wrote |-> TRUE]

mark_payment_paid(pays, payment_id) ==
    IF ~HasPayment(pays, payment_id)
    THEN [pays |-> pays, ret |-> NULL, wrote |-> FALSE]
    ELSE IF pays[payment_id].status = "paid"
    THEN [pays |-> pays, ret |-> pays[payment_id].user_id, wrote |-> FALSE]
    ELSE [pays |-> [pays EXCEPT ![payment_id].status = "paid", ![payment_id].paid_at = now],
          ret |-> pays[payment_id].user_id, wrote |-> TRUE]

mark_payment_status_clearing(pays, payment_id, status) ==
    IF HasPayment(pays, payment_id)
    THEN [pays EXCEPT ![payment_id].status = status, ![payment_id].paid_at = NULL]
    ELSE pays

mark_payment_status(pays, payment_id, status) ==
    IF HasPayment(pays, payment_id)
    THEN [pays EXCEPT ![payment_id].status = status]
    ELSE pays

\* INSERT ... ON CONFLICT DO NOTHING
ensure_enrollment_zero_based(enrs, user_id) ==
    IF enrs[user_id] # NoEnrollment THEN enrs
    ELSE [enrs EXCEPT ![user_id] =
            [next_lesson_index |-> 0, next_lesson_at |-> now, last_sent_at |-> NULL]]

\* ensure_enrollment, were its INSERT to end ON CONFLICT DO UPDATE
ensure_enrollment_upsert(enrs, user_id) ==
    [enrs EXCEPT ![user_id] =
        [next_lesson_index |-> 1, next_lesson_at |-> now, last_sent_at |-> NULL]]

ensure_enrollment(enrs, user_id) ==
    IF enrs[user_id] # NoEnrollment THEN enrs
    ELSE [enrs EXCEPT ![user_id] =
            [next_lesson_index |-> 1, next_lesson_at |-> now, last_sent_at |-> NULL]]

advance_enrollment_after_sent_nonow(enrs, user_id, next_lesson_index, lesson_interval_days) ==
    IF enrs[user_id] = NoEnrollment THEN enrs
    ELSE [enrs EXCEPT ![user_id] =
            [next_lesson_index |-> next_lesson_index,
             next_lesson_at |-> lesson_interval_days,
             last_sent_at |-> now]]

advance_enrollment_after_sent(enrs, user_id, next_lesson_index, lesson_interval_days) ==
    IF enrs[user_id] = NoEnrollment THEN enrs
    ELSE [enrs EXCEPT ![user_id] =
            [next_lesson_index |-> next_lesson_index,
             next_lesson_at |-> now + lesson_interval_days,
             last_sent_at |-> now]]

\* ------------------------------------------------------------------------
\* Handler tasks
\* ------------------------------------------------------------------------
\* a coroutine: its handler, where it stands, and its locals.  "first" is
\* whether its mark_payment_paid issued the UPDATE, "fresh" whether its
\* ensure_enrollment inserted the row.
IdleTask == [kind |-> "none", pc |-> "idle", pid |-> NULL, uid |-> NULL,
             first |-> FALSE, fresh |-> FALSE, enr_idx |-> NULL]

\* what the step just taken showed to the outside: the request it served
\* (for a notification: its external id and whether the holder of the
\* webhook secret signed it), whether the ledger was looked up, which
\* gateway was asked for the status, the verdict the notification's body
\* carried, and the response given, if the handler returned; for an admin
\* action who asked for it, for an admin command the subscriber and days it named and the expiry it replaced; for
\* a status query what is_subscribed returned; for a due query its LIMIT
\* and the rows it returned; the failure of the gateway call that raised in
\* the handler, if one did
NoResponse == [kind |-> "none", ext |-> NULL, signed |-> FALSE, looked |-> FALSE,
               asked |-> "none", body |-> "none", resp |-> "none",
               key |-> NULL, caller |-> NULL, user |-> NULL, days |-> NULL, prev_expires_at |-> NULL,
               ok |-> FALSE, expires_at |-> NULL, limit |-> NULL, rows |-> <<>>,
               fault |-> "none"]

Idle(t) == task[t].pc = "idle"
\* a server that runs each request on a thread of its own: a handler starts
\* whatever another is in the middle of
LoopFree_threaded == TRUE

\* the event loop is free: no handler is between two of its awaits
LoopFree == running = NoTask

\* a new request is served by the first free task slot
Free(t) == Idle(t) /\ (t = "t2" => ~Idle("t1"))

\* a handler returns (or raises)
Respond(t, info, resp) ==
    /\ task' = [task EXCEPT ![t] = IdleTask]
    /\ running' = NoTask
    /\ last' = [info EXCEPT !.resp = resp]

Request(kind) == [NoResponse EXCEPT !.kind = kind]

Finish(t, resp) == Respond(t, Request(task[t].kind), resp)

\* the handler goes on, holding the event loop or not
Continue(t, rec, holds, info) ==
    /\ task' = [task EXCEPT ![t] = rec]
    /\ running' = IF holds THEN t ELSE NoTask
    /\ last' = info

\* the lesson scheduler between two passes: the rows its last pass listed,
\* the position it stands at, the position whose send raised (0: none) and
\* the positions it advanced
SchedIdle == [pc |-> "sleep", due |-> <<>>, pos |-> 0, failed |-> 0, advanced |-> {}]

\* the reminder scheduler between two passes: the instant its pass read,
\* the lead time and rows of the list it is walking, its position, and the
\* reminders the step just taken delivered
RemIdle == [pc |-> "sleep", now |-> 0, kind |-> "none", due |-> <<>>, pos |-> 0, sent |-> {},
            failed |-> 0]

\* what was asked of the mock adapter object so far: the (idempotency key,
\* external id) pairs its create_payment returned, the keys it was called
\* with more than once, the ids mark_paid was ever called with, and for
\* each id the mark_* call made last
NoCalls == [issued |-> {}, retried |-> {}, ever_paid |-> {},
            marked |-> [e \in ExtIds |-> "none"]]

\* load_config: a deployment with the webhook secret and the YooKassa keys
\* set, and one with neither (both are optional)
Configs == {[mp_webhook_secret |-> TRUE, yk |-> TRUE],
            [mp_webhook_secret |-> FALSE, yk |-> FALSE]}

Init ==
    /\ cfg \in Configs
    /\ payments = <<>>
    /\ subscriptions = [u \in Users |-> NoSubscription]
    /\ enrollments = [u \in Users |-> NoEnrollment]
    /\ remote = [g \in Gateways |-> [e \in ExtIds |-> "absent"]]
    /\ now = 0
    /\ task = [t \in Tasks |-> IdleTask]
    /\ running = NoTask
    /\ last = NoResponse
    /\ sched = SchedIdle
    /\ live = <<>>
    /\ rem = RemIdle
    /\ adapter = NoCalls

\* ---- checkout: start_checkout / start_pix_checkout ----
StartCheckout(t, user_id, svc) ==
    /\ LoopFree /\ Free(t)
    /\ Len(payments) < MaxPayments
    /\ payments' = create_payment(payments, user_id, ServiceGateway(svc),
                                  PriceCents, ServiceCurrency(svc))
    /\ Continue(t, [IdleTask EXCEPT !.kind = "start_checkout", !.pc = "create",
                                    !.pid = Len(payments) + 1, !.uid = user_id],
                TRUE, Request("start_checkout"))
    /\ UNCHANGED <<loops, cfg, subscriptions, enrollments, remote, now>>

\* provider.create_payment returned: the gateway knows the payment
\* (the mock keeps the status of an id it already has: setdefault), and
\* attach_checkout_details stores the id
CheckoutAttach(t) ==
    /\ running = t /\ task[t].pc = "create"
    /\ LET g == payments[task[t].pid].provider
           e == NewExternalId(g, payments[task[t].pid].idempotency_key)
       IN /\ remote' = [remote EXCEPT ![g][e] =
                           IF g = "mock" /\ remote[g][e] # "absent" THEN remote[g][e] ELSE "pending"]
          /\ payments' = attach_checkout_details(payments, task[t].pid, e)
    /\ Finish(t, "started")
    /\ UNCHANGED <<loops, cfg, subscriptions, enrollments, now>>

\* provider.create_payment raised, were start_checkout to catch the
\* exception, close the row and return its id
CheckoutCreateFail_closing(t) ==
    /\ running = t /\ task[t].pc = "create"
    /\ payments' = mark_payment_status(payments, task[t].pid, "cancelled")
    /\ Finish(t, "started")
    /\ UNCHANGED <<loops, cfg, subscriptions, enrollments, remote, now>>

\* provider.create_payment raised: the exception leaves start_checkout
CheckoutCreateFail(t) ==
    /\ running = t /\ task[t].pc = "create"
    /\ Finish(t, "error")
    /\ UNCHANGED <<loops, cfg, payments, subscriptions, enrollments, remote, now>>

\* ------------------------------------------------------------------------
\* Inbound notifications (app_server.py)
\* ------------------------------------------------------------------------
NoDigest == <<>>
NoHeader == [present |-> FALSE, ts |-> NULL, v1 |-> NoDigest]

\* hmac.new(secret, manifest, sha256).hexdigest() over
\* "id:{resource_id};request-id:{x_request_id};ts:{ts};"
Hmac(secret, resource_id, x_request_id, ts) == <<secret, resource_id, x_request_id, ts>>

WebhookSecret == "mp_webhook_secret"

\* the (x-signature, x-request-id) headers a caller may present with a
\* notification for external_id: no signature, no request id, a signature
\* lacking ts or v1, one made with the secret, with another key, or with the
\* secret for another resource id
SigHeaders(external_id) ==
    {<<NoHeader, 1>>,
     <<[present |-> TRUE, ts |-> 1, v1 |-> Hmac(WebhookSecret, external_id, NULL, 1)], NULL>>,
     <<[present |-> TRUE, ts |-> NULL, v1 |-> Hmac(WebhookSecret, external_id, 1, NULL)], 1>>,
     <<[present |-> TRUE, ts |-> 1, v1 |-> NoDigest], 1>>,
     <<[present |-> TRUE, ts |-> 1, v1 |-> Hmac(WebhookSecret, external_id, 1, 1)], 1>>,
     <<[present |-> TRUE, ts |-> 1, v1 |-> Hmac("other_key", external_id, 1, 1)], 1>>,
     <<[present |-> TRUE, ts |-> 1, v1 |-> Hmac(WebhookSecret, external_id + 1, 1, 1)], 1>>}

\* the sender holds the secret and signed this id, request id and ts
GenuineSignature(external_id, x_sig, x_req) ==
    /\ x_sig.present /\ x_req # NULL /\ x_sig.ts # NULL
    /\ x_sig.v1 = Hmac(WebhookSecret, external_id, x_req, x_sig.ts)

\* _parse_x_signature + verify_mp_signature
verify_mp_signature_v1_only(secret, x_signature, x_request_id, resource_id) ==
    x_signature.ts # NULL /\ x_signature.v1 # NoDigest

verify_mp_signature(secret, x_signature, x_request_id, resource_id) ==
    IF x_signature.ts = NULL \/ x_signature.v1 = NoDigest THEN FALSE
    ELSE Hmac(secret, resource_id, x_request_id, x_signature.ts) = x_signature.v1

\* the signature gate of mp_webhook: TRUE when the request is let through
MpSignatureAccepted(external_id, x_sig, x_req) ==
    IF cfg.mp_webhook_secret
    THEN /\ x_sig.present /\ x_req # NULL
         /\ verify_mp_signature(WebhookSecret, x_sig, x_req, external_id)
    ELSE TRUE

\* status, raw = provider.fetch_payment_status(external_id=external_id):
\* the verdict the handler acts on, given the notification body's own claim
\* and the gateway's reply
WebhookVerdict_body(body, reply) == body

WebhookVerdict(body, reply) == reply

Bodies == {"paid", "pending"}

PaidResponse(kind) ==
    CASE kind = "admin_approve" -> "approved"
      [] kind = "check_payment" -> "confirmed"
      [] OTHER -> "paid"

\* user_id = db.mark_payment_paid(id); if user_id: set_subscription, ...
MarkPaid(t, payment_id, info) ==
    LET r == mark_payment_paid(payments, payment_id) IN
    /\ payments' = r.pays
    /\ IF r.ret = NULL
       THEN Respond(t, info, PaidResponse(info.kind))
       ELSE Continue(t, [IdleTask EXCEPT !.kind = info.kind, !.pc = "setsub", !.pid = payment_id,
                                         !.uid = r.ret, !.first = r.wrote], TRUE, info)

\* from the lookup to the first store write
WebhookLookup(t, g, external_id, body, info) ==
    LET found == find_payment_by_external_id(payments, g, external_id)
        looked == [info EXCEPT !.looked = TRUE]
        asked == [looked EXCEPT !.asked = g, !.body = body]
    IN
    IF found = {}
    THEN Respond(t, looked, "ignored") /\ UNCHANGED payments
    ELSE \E p \in found :
           LET status == WebhookVerdict(body, fetch_payment_status(g, external_id)) IN
           IF status = "paid" THEN MarkPaid(t, p, asked)
           ELSE IF info.kind = "yk_webhook" /\ status = "cancelled"
                THEN /\ payments' = mark_payment_status(payments, p, "cancelled")
                     /\ Respond(t, asked, "not_paid")
           ELSE Respond(t, asked, "not_paid") /\ UNCHANGED payments

MpWebhook(t, external_id, x_sig, x_req, body) ==
    LET info == [Request("mp_webhook") EXCEPT !.ext = external_id,
                    !.signed = GenuineSignature(external_id, x_sig, x_req)]
    IN
    /\ LoopFree /\ Free(t)
    /\ IF ~MpSignatureAccepted(external_id, x_sig, x_req)
       THEN Respond(t, info, "401") /\ UNCHANGED payments
       ELSE WebhookLookup(t, "mercadopago_pix", external_id, body, info)
    /\ UNCHANGED <<loops, cfg, subscriptions, enrollments, remote, now>>

YkWebhook(t, external_id, body) ==
    LET info == [Request("yk_webhook") EXCEPT !.ext = external_id] IN
    /\ LoopFree /\ Free(t)
    /\ IF ~cfg.yk
       THEN Respond(t, info, "ignored") /\ UNCHANGED payments
       ELSE WebhookLookup(t, "yookassa", external_id, body, info)
    /\ UNCHANGED <<loops, cfg, subscriptions, enrollments, remote, now>>

\* GET /mock/paid?payment_id=...
MockPaid(t, payment_id) ==
    /\ LoopFree /\ Free(t)
    /\ IF ~HasPayment(payments, payment_id)
       THEN /\ Respond(t, Request("mock_paid"), "404")
            /\ UNCHANGED <<payments, remote>>
       ELSE LET external_id == payments[payment_id].external_id IN
            /\ remote' = IF external_id # NULL
                         THEN [remote EXCEPT !["mock"][external_id] = "paid"]
                         ELSE remote
            /\ MarkPaid(t, payment_id, Request("mock_paid"))
    /\ UNCHANGED <<loops, cfg, subscriptions, enrollments, now>>

\* ------------------------------------------------------------------------
\* Bot callbacks (bot.py on_callback)
\* ------------------------------------------------------------------------
\* the service check_payment picks from the row's provider column
CheckService(provider) ==
    CASE provider = "mercadopago_pix" -> "pay_pix"
      [] provider = "yookassa" -> "pay_yk"
      [] provider = "mock_yookassa" -> "pay_mock"
      [] OTHER -> "none"

\* refresh_and_mark_paid_if_needed: "paid" (already), "mark" (the gateway
\* says paid), "no" (not paid, after asking) or "no_ext"
Refresh(svc, payment_id) ==
    LET p == payments[payment_id] IN
    IF p.status = "paid" THEN "paid"
    ELSE IF p.external_id = NULL THEN "no_ext"
    ELSE IF fetch_payment_status(ServiceGateway(svc), p.external_id) = "paid" THEN "mark"
    ELSE "no"

CheckPayment(t, payment_id) ==
    LET info == [Request("check_payment") EXCEPT !.looked = TRUE] IN
    /\ LoopFree /\ Free(t)
    /\ IF ~HasPayment(payments, payment_id)
       THEN Respond(t, info, "not_found") /\ UNCHANGED payments
       ELSE LET svc == CheckService(payments[payment_id].provider)
                ok == IF svc = "none" THEN "no_ext" ELSE Refresh(svc, payment_id)
                asked == [info EXCEPT !.asked = IF svc = "none" THEN "none"
                                                 ELSE ServiceGateway(svc)]
            IN CASE ok = "no_ext" -> Respond(t, info, "not_confirmed") /\ UNCHANGED payments
                 [] ok = "no" -> Respond(t, asked, "not_confirmed") /\ UNCHANGED payments
                 [] ok = "mark" -> MarkPaid(t, payment_id, asked)
                 [] ok = "paid" ->
                      /\ Continue(t, [IdleTask EXCEPT !.kind = "check_payment", !.pc = "setsub",
                                                      !.pid = payment_id,
                                                      !.uid = payments[payment_id].user_id],
                                  TRUE, info)
                      /\ UNCHANGED payments
    /\ UNCHANGED <<loops, cfg, subscriptions, enrollments, remote, now>>

AdminApprove(t, payment_id, caller) ==
    /\ LoopFree /\ Free(t)
    /\ IF caller # AdminChatId
       THEN Respond(t, [Request("admin_approve") EXCEPT !.caller = caller], "not_allowed") /\ UNCHANGED payments
       ELSE MarkPaid(t, payment_id, [Request("admin_approve") EXCEPT !.caller = caller])
    /\ UNCHANGED <<loops, cfg, subscriptions, enrollments, remote, now>>

\* ------------------------------------------------------------------------
\* The steps after the ledger write
\* ------------------------------------------------------------------------
\* db.set_subscription(int(user_id), active=True, days=30)
SetSubscription(t) ==
    /\ running = t /\ task[t].pc = "setsub"
    /\ subscriptions' = set_subscription(subscriptions, task[t].uid, TRUE, SubscriptionDays)
    /\ IF task[t].kind \in {"check_payment", "admin_approve"}
       THEN Continue(t, [task[t] EXCEPT !.pc = "notify"], FALSE, NoResponse)
       ELSE Continue(t, [task[t] EXCEPT !.pc = "ensure"], TRUE, NoResponse)
    /\ UNCHANGED <<loops, cfg, payments, enrollments, remote, now>>

\* send_welcome_and_lesson1 up to its first await
EnsureEnrollment(t) ==
    /\ running = t /\ task[t].pc = "ensure"
    /\ enrollments' = ensure_enrollment(enrollments, task[t].uid)
    /\ Continue(t, [task[t] EXCEPT !.pc = "welcome",
                                   !.fresh = (enrollments[task[t].uid] = NoEnrollment),
                                   !.enr_idx = enrollments'[task[t].uid].next_lesson_index],
                FALSE, NoResponse)
    /\ UNCHANGED <<loops, cfg, payments, subscriptions, remote, now>>

\* await bot.send_message(welcome) returned
SendWelcome(t) ==
    /\ LoopFree /\ task[t].pc = "welcome"
    /\ IF task[t].enr_idx > 1
       THEN Finish(t, PaidResponse(task[t].kind))
       ELSE Continue(t, [task[t] EXCEPT !.pc = "lesson1"], FALSE, NoResponse)
    /\ UNCHANGED <<loops, cfg, payments, subscriptions, enrollments, remote, now>>

\* await bot.send_message(lesson 1) returned
SendLesson1(t) ==
    /\ LoopFree /\ task[t].pc = "lesson1"
    /\ enrollments' = advance_enrollment_after_sent(enrollments, task[t].uid, 2, LessonIntervalDays)
    /\ Finish(t, PaidResponse(task[t].kind))
    /\ UNCHANGED <<loops, cfg, payments, subscriptions, remote, now>>

\* either send raised: the exception leaves send_welcome_and_lesson1 and the
\* handler that awaited it
SendFail(t) ==
    /\ LoopFree /\ task[t].pc \in {"welcome", "lesson1"}
    /\ Finish(t, "error500")
    /\ UNCHANGED <<loops, cfg, payments, subscriptions, enrollments, remote, now>>

\* notify_admin / the message to the payer: sent or failed, the exception
\* is swallowed
Notify(t) ==
    /\ LoopFree /\ task[t].pc = "notify"
    /\ Finish(t, PaidResponse(task[t].kind))
    /\ UNCHANGED <<loops, cfg, payments, subscriptions, enrollments, remote, now>>

\* ---- the gateways' side: the payer pays, abandons, is refunded ----
GatewayNext(g, status) ==
    CASE g = "mercadopago_pix" /\ status = "pending" -> {"approved", "cancelled"}
      [] g = "mercadopago_pix" /\ status = "approved" -> {"refunded"}
      [] g = "yookassa" /\ status = "pending" -> {"succeeded", "canceled"}
      [] OTHER -> {}

GatewayUpdate(g, e) ==
    /\ LoopFree
    /\ \E s \in GatewayNext(g, remote[g][e]) :
          remote' = [remote EXCEPT ![g][e] = s]
    /\ last' = NoResponse
    /\ UNCHANGED <<loops, cfg, payments, subscriptions, enrollments, now, task, running>>

Tick ==
    /\ LoopFree
    /\ now < MaxTime
    /\ now' = now + 1
    /\ last' = NoResponse
    /\ UNCHANGED <<loops, cfg, payments, subscriptions, enrollments, remote, task, running>>

\* the process dies and restarts: coroutines and the mock provider's
\* in-memory state are lost, the store is kept
Crash ==
    /\ \E t \in Tasks : ~Idle(t)
    /\ task' = [t \in Tasks |-> IdleTask]
    /\ running' = NoTask
    /\ remote' = [remote EXCEPT !["mock"] = [e \in ExtIds |-> "absent"]]
    /\ last' = [NoResponse EXCEPT !.kind = "crash"]
    /\ UNCHANGED <<loops, cfg, payments, subscriptions, enrollments, now>>

Next ==
    \/ \E t \in Tasks, u \in Users, svc \in {"pay_pix", "pay_yk", "pay_mock"} : StartCheckout(t, u, svc)
    \/ \E t \in Tasks : CheckoutAttach(t)
    \/ \E t \in Tasks : CheckoutCreateFail(t)
    \/ \E t \in Tasks, e \in ExtIds, body \in Bodies :
       \E h \in SigHeaders(e) : MpWebhook(t, e, h[1], h[2], body)
    \/ \E t \in Tasks, e \in ExtIds, body \in Bodies : YkWebhook(t, e, body)
    \/ \E t \in Tasks, p \in PaymentIds : MockPaid(t, p)
    \/ \E t \in Tasks, p \in PaymentIds : CheckPayment(t, p)
    \/ \E t \in Tasks, p \in PaymentIds, c \in Callers : AdminApprove(t, p, c)
    \/ \E t \in Tasks : SetSubscription(t)
    \/ \E t \in Tasks : EnsureEnrollment(t)
    \/ \E t \in Tasks : SendWelcome(t)
    \/ \E t \in Tasks : SendLesson1(t)
    \/ \E t \in Tasks : SendFail(t)
    \/ \E t \in Tasks : Notify(t)
    \/ \E g \in Gateways, e \in ExtIds : GatewayUpdate(g, e)
    \/ Tick
    \/ Crash

Spec == Init /\ [][Next]_vars


\* ------------------------------------------------------------------------
\* Lesson scheduler (lessons_scheduler.py)
\* ------------------------------------------------------------------------
MaxDay == 15

\* the lessons app_server.py adds at startup
LessonCatalog == {1, 2}
MissingLessonIntervalDays == 1
DueLimit == 50

\* list_due_enrollments: the rows with next_lesson_at <= now, ordered by
\* next_lesson_at (rows with equal next_lesson_at in any order), at most
\* limit of them; each row as the pass keeps it: the user and the index read
DueUsers(enrs) == {u \in Users : enrs[u] # NoEnrollment /\ enrs[u].next_lesson_at <= now}

\* the query without its ORDER BY: any rows that are due, up to the limit
list_due_enrollments_unordered(enrs, limit) ==
    LET n == Cardinality(DueUsers(enrs))
        m == IF n < limit THEN n ELSE limit
        orders == {f \in [1..n -> DueUsers(enrs)] : \A i, j \in 1..n : i # j => f[i] # f[j]}
    IN {[i \in 1..m |-> [user_id |-> f[i], next_lesson_index |-> enrs[f[i]].next_lesson_index]] :
           f \in orders}

list_due_enrollments(enrs, limit) ==
    LET n == Cardinality(DueUsers(enrs))
        m == IF n < limit THEN n ELSE limit
        orders == {f \in [1..n -> DueUsers(enrs)] :
                      /\ \A i, j \in 1..n : i # j => f[i] # f[j]
                      /\ \A i, j \in 1..n :
                            i < j => enrs[f[i]].next_lesson_at <= enrs[f[j]].next_lesson_at}
    IN {[i \in 1..m |-> [user_id |-> f[i], next_lesson_index |-> enrs[f[i]].next_lesson_index]] :
           f \in orders}

get_lesson(lesson_index) == lesson_index \in LessonCatalog

\* the branch "if not lesson" of the pass, for the row e it listed
SkipMissing_next(enrs, e) ==
    advance_enrollment_after_sent(enrs, e.user_id, e.next_lesson_index + 1,
                                  MissingLessonIntervalDays)

SkipMissing(enrs, e) ==
    advance_enrollment_after_sent(enrs, e.user_id, e.next_lesson_index,
                                  MissingLessonIntervalDays)

\* the for loop of a pass from position pos up to its next await: rows whose
\* lesson is missing are postponed on the way; it stops at the first row
\* with a lesson to send, or at the end of the list
RECURSIVE RunPass(_, _, _, _)
RunPass(enrs, due, pos, advanced) ==
    IF pos > Len(due)
    THEN [enrs |-> enrs, pc |-> "sleep", pos |-> 0, advanced |-> advanced]
    ELSE IF get_lesson(due[pos].next_lesson_index)
    THEN [enrs |-> enrs, pc |-> "send", pos |-> pos, advanced |-> advanced]
    ELSE RunPass(SkipMissing(enrs, due[pos]), due, pos + 1, advanced \cup {pos})

\* asyncio.sleep returned: list the due rows and walk them to the first send
SchedWake ==
    /\ LoopFree /\ sched.pc = "sleep"
    /\ \E due \in list_due_enrollments(enrollments, DueLimit) :
          LET r == RunPass(enrollments, due, 1, {}) IN
          /\ enrollments' = r.enrs
          /\ sched' = [pc |-> r.pc, due |-> due, pos |-> r.pos, failed |-> 0,
                       advanced |-> r.advanced]
    /\ last' = NoResponse
    /\ UNCHANGED <<adapter, live, rem, cfg, payments, subscriptions, remote, now, task, running>>

\* await bot.send_message(lesson) returned: advance the row to the next
\* index, one course interval from now, and go on
SchedSent ==
    /\ LoopFree /\ sched.pc = "send"
    /\ LET e == sched.due[sched.pos]
           sent == advance_enrollment_after_sent(enrollments, e.user_id,
                                                 e.next_lesson_index + 1, LessonIntervalDays)
           r == RunPass(sent, sched.due, sched.pos + 1, sched.advanced \cup {sched.pos})
       IN /\ enrollments' = r.enrs
          /\ sched' = [sched EXCEPT !.pc = r.pc, !.pos = r.pos, !.advanced = r.advanced]
    /\ last' = NoResponse
    /\ UNCHANGED <<adapter, live, rem, cfg, payments, subscriptions, remote, now, task, running>>

\* a pass that writes the advance before it awaits the send: a send that
\* raises leaves the row advanced
SchedSendFail_advancing ==
    /\ LoopFree /\ sched.pc = "send"
    /\ enrollments' = advance_enrollment_after_sent(enrollments, sched.due[sched.pos].user_id,
                          sched.due[sched.pos].next_lesson_index + 1, LessonIntervalDays)
    /\ sched' = [sched EXCEPT !.pc = "sleep", !.pos = 0, !.failed = sched.pos]
    /\ last' = NoResponse
    /\ UNCHANGED <<adapter, live, rem, cfg, payments, subscriptions, remote, now, task, running>>

\* await bot.send_message(lesson) raised: the except around the whole pass
\* catches it and the loop goes to sleep
SchedSendFail ==
    /\ LoopFree /\ sched.pc = "send"
    /\ sched' = [sched EXCEPT !.pc = "sleep", !.pos = 0, !.failed = sched.pos]
    /\ last' = NoResponse
    /\ UNCHANGED <<adapter, live, rem, cfg, payments, subscriptions, enrollments, remote, now, task,
                   running>>

\* a handler calls send_welcome_and_lesson1 for a subscriber
WelcomeFlow(t, user_id) ==
    /\ LoopFree /\ Free(t)
    /\ Continue(t, [IdleTask EXCEPT !.kind = "welcome_flow", !.pc = "ensure", !.uid = user_id,
                                    !.first = TRUE],
                TRUE, NoResponse)
    /\ UNCHANGED <<loops, cfg, payments, subscriptions, enrollments, remote, now>>

\* a day passes; a send to Telegram returns or raises within the day
SchedTick ==
    /\ LoopFree /\ sched.pc # "send" /\ \A t \in Tasks : Idle(t)
    /\ now < MaxDay
    /\ now' = now + 1
    /\ last' = NoResponse
    /\ UNCHANGED <<loops, cfg, payments, subscriptions, enrollments, remote, task, running>>

SchedNext ==
    \/ SchedWake
    \/ SchedSent
    \/ SchedSendFail
    \/ SchedTick
    \/ \E t \in Tasks, u \in Users : WelcomeFlow(t, u)
    \/ \E t \in Tasks : EnsureEnrollment(t)
    \/ \E t \in Tasks : SendWelcome(t)
    \/ \E t \in Tasks : SendLesson1(t)
    \/ \E t \in Tasks : SendFail(t)

\* the deployment's payment settings play no part in the scheduler
SchedInit == Init /\ cfg.yk

SchedSpec == SchedInit /\ [][SchedNext]_vars


\* ------------------------------------------------------------------------
\* Live-session reminders (live_sessions.py, reminders_scheduler.py)
\* ------------------------------------------------------------------------
MaxSessions == 2
LastSlot == 101

\* time in quarters of an hour; the horizons of the three due queries
Horizon15m == 1
Horizon1h == 4
Horizon24h == 96
ListLimit == 200

ReminderKinds == {"15m", "1h", "24h"}

Horizon(kind) ==
    CASE kind = "15m" -> Horizon15m
      [] kind = "1h" -> Horizon1h
      [] kind = "24h" -> Horizon24h

\* the order of the three loops of a pass
NextKind(kind) ==
    CASE kind = "15m" -> "1h"
      [] kind = "1h" -> "24h"
      [] kind = "24h" -> "none"

\* the start times sessions are scheduled at, and the instants the clock is
\* read at: around each horizon of each start time
StartSlots == {LastSlot - 2, LastSlot - 1}
RemClock ==
    {0, LastSlot} \cup StartSlots
      \cup {s - Horizon(k) : s \in StartSlots, k \in ReminderKinds}
      \cup {s - Horizon(k) - 1 : s \in StartSlots, k \in ReminderKinds}

\* the column remind_<kind>_sent_at of a row
SentAt(row, kind) ==
    CASE kind = "15m" -> row.remind_15m_sent_at
      [] kind = "1h" -> row.remind_1h_sent_at
      [] kind = "24h" -> row.remind_24h_sent_at

\* INSERT INTO live_sessions (user_id, starts_at, ...) RETURNING id
add_session(lv, user_id, starts_at) ==
    Append(lv, [user_id |-> user_id, starts_at |-> starts_at,
                remind_24h_sent_at |-> NULL, remind_1h_sent_at |-> NULL,
                remind_15m_sent_at |-> NULL])

\* list_live_sessions_due_24h / _1h / _15m: the ids of the rows starting
\* after now_ and within the horizon whose column is NULL, by starts_at
\* (equal starts_at in any order), at most as many as the LIMIT clause says,
\* which is ListLimit in all three queries
\* the query with starts_at >= now: a session starting at the instant of
\* the pass is listed
DueSessions_started(lv, kind, now_) ==
    {i \in DOMAIN lv : /\ lv[i].starts_at >= now_
                       /\ lv[i].starts_at <= now_ + Horizon(kind)
                       /\ SentAt(lv[i], kind) = NULL}

DueSessions(lv, kind, now_) ==
    {i \in DOMAIN lv : /\ lv[i].starts_at > now_
                       /\ lv[i].starts_at <= now_ + Horizon(kind)
                       /\ SentAt(lv[i], kind) = NULL}

LiveSessionsQuery(lv, kind, now_, limit) ==
    LET ids == DueSessions(lv, kind, now_)
        n == Cardinality(ids)
        m == IF n < limit THEN n ELSE limit
        orders == {f \in [1..n -> ids] :
                      /\ \A i, j \in 1..n : i # j => f[i] # f[j]
                      /\ \A i, j \in 1..n : i < j => lv[f[i]].starts_at <= lv[f[j]].starts_at}
    IN {[i \in 1..m |-> f[i]] : f \in orders}

list_live_sessions_due(lv, kind, now_) == LiveSessionsQuery(lv, kind, now_, ListLimit)

\* UPDATE live_sessions SET remind_<kind>_sent_at = NOW() WHERE id = ...
mark_live_session_reminded_all(lv, session_id, kind) ==
    [lv EXCEPT ![session_id].remind_15m_sent_at = now,
               ![session_id].remind_1h_sent_at = now,
               ![session_id].remind_24h_sent_at = now]

mark_live_session_reminded(lv, session_id, kind) ==
    CASE kind = "15m" -> [lv EXCEPT ![session_id].remind_15m_sent_at = now]
      [] kind = "1h" -> [lv EXCEPT ![session_id].remind_1h_sent_at = now]
      [] kind = "24h" -> [lv EXCEPT ![session_id].remind_24h_sent_at = now]

\* a pass from position pos of the list of kind up to its next await: at the
\* end of a list the next list is read, with the instant the pass began at;
\* the states the pass may stop in (one per order of the rows listed)
RECURSIVE RunReminders(_, _, _, _, _)
RunReminders(lv, now_, kind, due, pos) ==
    IF pos <= Len(due)
    THEN {[pc |-> "send", now |-> now_, kind |-> kind, due |-> due, pos |-> pos, sent |-> {},
           failed |-> 0]}
    ELSE IF NextKind(kind) = "none"
    THEN {RemIdle}
    ELSE UNION {RunReminders(lv, now_, NextKind(kind), d, 1) :
                   d \in list_live_sessions_due(lv, NextKind(kind), now_)}

\* a live session is scheduled for a user
AddSession(user_id, starts_at) ==
    /\ Len(live) < MaxSessions
    /\ live' = add_session(live, user_id, starts_at)
    /\ rem' = [rem EXCEPT !.sent = {}]
    /\ UNCHANGED <<adapter, sched, cfg, payments, subscriptions, enrollments, remote, now, task,
                   running, last>>

\* asyncio.sleep returned: read the clock, list the 15m rows, walk
RemWake ==
    /\ rem.pc = "sleep"
    /\ \E d \in list_live_sessions_due(live, "15m", now) :
          rem' \in RunReminders(live, now, "15m", d, 1)
    /\ UNCHANGED <<adapter, sched, live, cfg, payments, subscriptions, enrollments, remote, now, task,
                   running, last>>

\* _send: await bot.send_message returned, the column is written, the pass
\* goes on
RemSent ==
    /\ rem.pc = "send"
    /\ LET id == rem.due[rem.pos] IN
       /\ live' = mark_live_session_reminded(live, id, rem.kind)
       /\ \E r \in RunReminders(live', rem.now, rem.kind, rem.due, rem.pos + 1) :
             rem' = [r EXCEPT !.sent = {<<id, rem.kind>>}]
    /\ UNCHANGED <<adapter, sched, cfg, payments, subscriptions, enrollments, remote, now, task,
                   running, last>>

\* a loop without the except around the pass: a send that raises ends the
\* task
RemSendFail_uncaught ==
    /\ rem.pc = "send"
    /\ rem' = [RemIdle EXCEPT !.pc = "stopped", !.failed = rem.pos]
    /\ UNCHANGED <<adapter, sched, live, cfg, payments, subscriptions, enrollments, remote, now, task,
                   running, last>>

\* _send: await bot.send_message raised; the except around the pass
RemSendFail ==
    /\ rem.pc = "send"
    /\ rem' = [RemIdle EXCEPT !.failed = rem.pos]
    /\ UNCHANGED <<adapter, sched, live, cfg, payments, subscriptions, enrollments, remote, now, task,
                   running, last>>

\* the process stops during a send, the message delivered or not, and is
\* started again
RemRestart ==
    /\ rem.pc = "send"
    /\ \E delivered \in BOOLEAN :
          rem' = [RemIdle EXCEPT !.sent = IF delivered THEN {<<rem.due[rem.pos], rem.kind>>}
                                          ELSE {}]
    /\ UNCHANGED <<adapter, sched, live, cfg, payments, subscriptions, enrollments, remote, now, task,
                   running, last>>

\* time passes, also during a send
RemTick ==
    /\ \E t \in RemClock : t > now /\ now' = t
    /\ rem' = [rem EXCEPT !.sent = {}]
    /\ UNCHANGED <<adapter, sched, live, cfg, payments, subscriptions, enrollments, remote, task,
                   running, last>>

RemNext ==
    \/ \E u \in Users, s \in StartSlots : AddSession(u, s)
    \/ RemWake
    \/ RemSent
    \/ RemSendFail
    \/ RemRestart
    \/ RemTick

RemSpec == SchedInit /\ [][RemNext]_vars


\* ------------------------------------------------------------------------
\* Entitlements: admin commands, status queries, paid grants
\* ------------------------------------------------------------------------
MaxSubDay == 2

\* cfg.admin_ids, were every sender in it
AdminIds_everyone == Callers

\* cfg.admin_ids
AdminIds == {AdminChatId}

\* the [days] argument of /grant: absent, or a number of days
GrantDays == {NULL, 0, 1, SubscriptionDays, SubscriptionDays + MaxSubDay}

\* /grant <user_id> [days]
CmdGrant(caller, user_id, days) ==
    /\ LoopFree
    /\ IF caller \notin AdminIds
       THEN /\ last' = [Request("cmd_grant") EXCEPT !.resp = "not_allowed", !.caller = caller]
            /\ UNCHANGED subscriptions
       ELSE /\ subscriptions' = set_subscription(subscriptions, user_id, TRUE, days)
            /\ last' = [Request("cmd_grant") EXCEPT !.resp = "granted", !.caller = caller,
                           !.user = user_id,
                           !.days = days,
                           !.prev_expires_at = subscriptions[user_id].expires_at]
    /\ UNCHANGED <<loops, cfg, payments, enrollments, remote, now, task, running>>

\* /revoke <user_id>
CmdRevoke(caller, user_id) ==
    /\ LoopFree
    /\ IF caller \notin AdminIds
       THEN /\ last' = [Request("cmd_revoke") EXCEPT !.resp = "not_allowed", !.caller = caller]
            /\ UNCHANGED subscriptions
       ELSE /\ subscriptions' = set_subscription(subscriptions, user_id, FALSE, NULL)
            /\ last' = [Request("cmd_revoke") EXCEPT !.resp = "revoked", !.caller = caller,
                           !.user = user_id]
    /\ UNCHANGED <<loops, cfg, payments, enrollments, remote, now, task, running>>

\* format_status: ok, expires_at, reason = db.is_subscribed(user_id)
FormatStatus(user_id) ==
    /\ LoopFree
    /\ LET r == is_subscribed(subscriptions, user_id) IN
       last' = [Request("format_status") EXCEPT !.user = user_id, !.ok = r[1],
                   !.expires_at = r[2], !.resp = r[3]]
    /\ UNCHANGED <<loops, cfg, payments, subscriptions, enrollments, remote, now, task, running>>

\* a day passes
SubTick ==
    /\ LoopFree
    /\ now < MaxSubDay
    /\ now' = now + 1
    /\ last' = NoResponse
    /\ UNCHANGED <<loops, cfg, payments, subscriptions, enrollments, remote, task, running>>

\* the paid grant of this specification is the mock gateway's: one handler
\* at a time
SubTasks == {"t1"}

SubNext ==
    \/ \E c \in Callers, u \in Users, d \in GrantDays : CmdGrant(c, u, d)
    \/ \E c \in Callers, u \in Users : CmdRevoke(c, u)
    \/ \E u \in Users : FormatStatus(u)
    \/ SubTick
    \/ \E t \in SubTasks, u \in Users : StartCheckout(t, u, "pay_mock")
    \/ \E t \in SubTasks : CheckoutAttach(t)
    \/ \E t \in SubTasks : CheckoutCreateFail(t)
    \/ \E t \in SubTasks, p \in PaymentIds : MockPaid(t, p)
    \/ \E t \in SubTasks : SetSubscription(t)
    \/ \E t \in SubTasks : EnsureEnrollment(t)
    \/ \E t \in SubTasks : SendWelcome(t)
    \/ \E t \in SubTasks : SendLesson1(t)
    \/ \E t \in SubTasks : SendFail(t)
    \/ Crash

SubSpec == SchedInit /\ [][SubNext]_vars

\* ------------------------------------------------------------------------
\* Administrative actions and who may ask for them
\* ------------------------------------------------------------------------
\* /schedule <user_id> <date> <time> ...
CmdSchedule(caller, user_id, starts_at) ==
    /\ LoopFree
    /\ caller \in AdminIds => Len(live) < MaxSessions
    /\ IF caller \notin AdminIds
       THEN /\ last' = [Request("cmd_schedule") EXCEPT !.resp = "not_allowed", !.caller = caller]
            /\ UNCHANGED live
       ELSE /\ live' = add_session(live, user_id, starts_at)
            /\ last' = [Request("cmd_schedule") EXCEPT !.resp = "scheduled", !.caller = caller,
                           !.user = user_id]
    /\ UNCHANGED <<adapter, sched, rem, cfg, payments, subscriptions, enrollments, remote, now, task,
                   running>>

AuthNext ==
    \/ \E t \in SubTasks, u \in Users : StartCheckout(t, u, "pay_mock")
    \/ \E t \in SubTasks : CheckoutAttach(t)
    \/ \E t \in SubTasks : CheckoutCreateFail(t)
    \/ \E t \in SubTasks, p \in PaymentIds, c \in Callers : AdminApprove(t, p, c)
    \/ \E t \in SubTasks : SetSubscription(t)
    \/ \E t \in SubTasks : Notify(t)
    \/ \E c \in Callers, u \in Users, d \in GrantDays : CmdGrant(c, u, d)
    \/ \E c \in Callers, u \in Users : CmdRevoke(c, u)
    \/ \E c \in Callers, u \in Users, s \in StartSlots : CmdSchedule(c, u, s)
    \/ Crash

AuthSpec == SchedInit /\ [][AuthNext]_vars

\* ------------------------------------------------------------------------
\* The adapters on their own
\* ------------------------------------------------------------------------
RealGateways == {"mercadopago_pix", "yookassa"}

\* the payment the gateways are asked about
Probe == 1

\* the gateway's record of the payment now carries this status
GatewayReports(g, raw) ==
    /\ remote' = [remote EXCEPT ![g][Probe] = raw]
    /\ last' = NoResponse
    /\ UNCHANGED <<loops, cfg, payments, subscriptions, enrollments, now, task, running>>

\* provider.fetch_payment_status(external_id=...)
FetchStatus(g, external_id) ==
    /\ last' = [Request("fetch_payment_status") EXCEPT
                   !.asked = g, !.ext = external_id,
                   !.body = IF g = "mock" THEN "none" ELSE remote[g][external_id],
                   !.resp = fetch_payment_status(g, external_id)]
    /\ UNCHANGED <<loops, cfg, payments, subscriptions, enrollments, remote, now, task, running>>

MapNext ==
    \/ \E g \in RealGateways, raw \in RawStatuses : GatewayReports(g, raw)
    \/ \E g \in RealGateways : FetchStatus(g, Probe)

MapSpec == SchedInit /\ [][MapNext]_vars

\* the external ids the mock is called with: those it issues and one it
\* never issues
MockIds == {Probe} \cup {MockExternalId(k) : k \in 1..MaxRows}
IssuedIds == {pr[2] : pr \in adapter.issued}

\* provider.create_payment(idempotency_key=...) on the mock
MockCreate(idempotency_key) ==
    /\ LET r == mock_create_payment(remote["mock"], idempotency_key) IN
       /\ remote' = [remote EXCEPT !["mock"] = r.state]
       /\ adapter' = [adapter EXCEPT
              !.issued = @ \cup {<<idempotency_key, r.external_id>>},
              !.retried = IF \E pr \in adapter.issued : pr[1] = idempotency_key
                          THEN @ \cup {idempotency_key} ELSE @]
       /\ last' = [Request("create_payment") EXCEPT !.asked = "mock", !.key = idempotency_key,
                      !.ext = r.external_id, !.resp = "created"]
    /\ UNCHANGED <<sched, live, rem, cfg, payments, subscriptions, enrollments, now, task,
                   running>>

\* mock_provider.mark_paid(external_id)
MockMarkPaid(external_id) ==
    /\ remote' = [remote EXCEPT !["mock"] = mock_mark(@, external_id, "paid")]
    /\ adapter' = [adapter EXCEPT !.ever_paid = @ \cup {external_id},
                                  !.marked[external_id] = "paid"]
    /\ last' = [Request("mark_paid") EXCEPT !.asked = "mock", !.ext = external_id]
    /\ UNCHANGED <<sched, live, rem, cfg, payments, subscriptions, enrollments, now, task,
                   running>>

\* mock_provider.mark_cancelled(external_id)
MockMarkCancelled(external_id) ==
    /\ remote' = [remote EXCEPT !["mock"] = mock_mark(@, external_id, "cancelled")]
    /\ adapter' = [adapter EXCEPT !.marked[external_id] = "cancelled"]
    /\ last' = [Request("mark_cancelled") EXCEPT !.asked = "mock", !.ext = external_id]
    /\ UNCHANGED <<sched, live, rem, cfg, payments, subscriptions, enrollments, now, task,
                   running>>

MockNext ==
    \/ \E k \in 1..MaxRows : MockCreate(k)
    \/ \E e \in MockIds : MockMarkPaid(e)
    \/ \E e \in MockIds : MockMarkCancelled(e)
    \/ \E e \in MockIds : FetchStatus("mock", e)

MockSpec == SchedInit /\ [][MockNext]_vars

\* ------------------------------------------------------------------------
\* The ledger under repeated checkouts
\* ------------------------------------------------------------------------
\* the handlers of this specification run one at a time
LedgerTasks == {"t1"}

\* start_checkout / start_pix_checkout, for a ledger of up to MaxRows rows
LedgerCheckout(t, user_id, svc) ==
    /\ LoopFree /\ Free(t)
    /\ Len(payments) < MaxRows
    /\ payments' = create_payment(payments, user_id, ServiceGateway(svc),
                                  PriceCents, ServiceCurrency(svc))
    /\ Continue(t, [IdleTask EXCEPT !.kind = "start_checkout", !.pc = "create",
                                    !.pid = Len(payments) + 1, !.uid = user_id],
                TRUE, Request("start_checkout"))
    /\ UNCHANGED <<loops, cfg, subscriptions, enrollments, remote, now>>

\* the notifications of this specification come unsigned or signed by the
\* holder of the secret
LedgerSigHeaders(external_id) ==
    {h \in SigHeaders(external_id) :
        ~h[1].present \/ GenuineSignature(external_id, h[1], h[2])}

LedgerNext ==
    \/ \E t \in LedgerTasks, u \in Users, svc \in {"pay_pix", "pay_yk", "pay_mock"} : LedgerCheckout(t, u, svc)
    \/ \E t \in LedgerTasks : CheckoutAttach(t)
    \/ \E t \in LedgerTasks : CheckoutCreateFail(t)
    \/ \E t \in LedgerTasks, e \in ExtIds, body \in Bodies :
       \E h \in LedgerSigHeaders(e) : MpWebhook(t, e, h[1], h[2], body)
    \/ \E t \in LedgerTasks, e \in ExtIds, body \in Bodies : YkWebhook(t, e, body)
    \/ \E t \in LedgerTasks, p \in PaymentIds : MockPaid(t, p)
    \/ \E t \in LedgerTasks, p \in PaymentIds : CheckPayment(t, p)
    \/ \E t \in LedgerTasks, p \in PaymentIds, c \in Callers : AdminApprove(t, p, c)
    \/ \E t \in LedgerTasks : SetSubscription(t)
    \/ \E t \in LedgerTasks : EnsureEnrollment(t)
    \/ \E t \in LedgerTasks : SendWelcome(t)
    \/ \E t \in LedgerTasks : SendLesson1(t)
    \/ \E t \in LedgerTasks : SendFail(t)
    \/ \E t \in LedgerTasks : Notify(t)
    \/ \E g \in Gateways, e \in ExtIds : GatewayUpdate(g, e)
    \/ Crash

LedgerSpec == Init /\ [][LedgerNext]_vars


\* ------------------------------------------------------------------------
\* The two background loops in one process, stopped and started again
\* ------------------------------------------------------------------------
\* both loops read one clock: an enrollment's interval and a session's
\* lead times are counted in its ticks
DripTasks == {"t1"}

\* the process is up: app_server.py's startup created the loops
Up == sched.pc # "stopped"

\* the tables a pass that began at position pos may have committed when the
\* process dies inside the for loop before its next await: the rows without
\* a lesson postponed one by one
RECURSIVE PassPrefixes(_, _, _)
PassPrefixes(enrs, due, pos) ==
    IF pos > Len(due) \/ get_lesson(due[pos].next_lesson_index)
    THEN {enrs}
    ELSE {enrs} \cup PassPrefixes(SkipMissing(enrs, due[pos]), due, pos + 1)

\* the process stops: coroutines, loops and the mock provider's memory are
\* gone, the store is kept
ProcessDown(cause) ==
    /\ sched' = [sched EXCEPT !.pc = "stopped"]
    /\ rem' = RemIdle
    /\ task' = [t \in Tasks |-> IdleTask]
    /\ running' = NoTask
    /\ remote' = [remote EXCEPT !["mock"] = [e \in ExtIds |-> "absent"]]
    /\ last' = [NoResponse EXCEPT !.kind = cause]
    /\ UNCHANGED <<adapter, live, cfg, payments, subscriptions, now>>

\* the lesson loop with "except BaseException" in the place of
\* "except Exception": the CancelledError is caught and the loop goes on
SchedCancel_swallowed ==
    /\ Up /\ LoopFree
    /\ sched' = [sched EXCEPT !.pc = "sleep", !.pos = 0]
    /\ last' = [NoResponse EXCEPT !.kind = "shutdown"]
    /\ UNCHANGED <<adapter, live, rem, task, running, remote, cfg, payments, subscriptions,
                   enrollments, now>>

\* _shutdown: _scheduler_task.cancel(); the CancelledError is raised at the
\* await the loop is suspended in (the send or the sleep); it is not an
\* Exception on the interpreters the program runs on (config.py's set[int]
\* in a class body needs Python 3.9), so it ends the coroutine
SchedCancel ==
    /\ Up /\ LoopFree
    /\ ProcessDown("shutdown")
    /\ UNCHANGED enrollments

\* the process is killed at any point of a pass: at an await, or inside the
\* for loop after some of its writes
SchedCrash ==
    /\ Up
    /\ \E e \in IF sched.pc = "send"
                THEN LET x == sched.due[sched.pos]
                         sent == advance_enrollment_after_sent(enrollments, x.user_id,
                                     x.next_lesson_index + 1, LessonIntervalDays)
                     IN {enrollments} \cup PassPrefixes(sent, sched.due, sched.pos + 1)
                ELSE UNION {PassPrefixes(enrollments, due, 1) :
                               due \in list_due_enrollments(enrollments, DueLimit)} :
          enrollments' = e
    /\ ProcessDown("crash")

\* _startup: asyncio.create_task(lessons_scheduler_loop(...)); the loop
\* begins with a pass
SchedStart ==
    /\ ~Up
    /\ sched' = SchedIdle
    /\ last' = [NoResponse EXCEPT !.kind = "startup"]
    /\ UNCHANGED <<adapter, live, rem, task, running, remote, cfg, payments, subscriptions,
                   enrollments, now>>

\* the instants the clock is read at: the start, the day the second lesson
\* falls due, and the last quarters before the sessions start
DripClock == {LessonIntervalDays, LastSlot - 3}

\* time passes up to an instant of the set clock; a send to Telegram
\* returns or raises before the next instant
ClockTick(clock) ==
    /\ sched.pc # "send" /\ rem.pc # "send" /\ \A t \in Tasks : Idle(t)
    /\ \E t \in clock : t > now /\ now' = t
    /\ rem' = [rem EXCEPT !.sent = {}]
    /\ last' = NoResponse
    /\ UNCHANGED <<adapter, sched, live, cfg, payments, subscriptions, enrollments, remote, task,
                   running>>

DripTick == ClockTick(DripClock)

DripNext ==
    \/ \E t \in DripTasks, u \in Users : Up /\ WelcomeFlow(t, u)
    \/ \E t \in DripTasks : EnsureEnrollment(t)
    \/ \E t \in DripTasks : SendWelcome(t)
    \/ \E t \in DripTasks : SendLesson1(t)
    \/ \E t \in DripTasks : SendFail(t)
    \/ Up /\ SchedWake
    \/ SchedSent
    \/ SchedSendFail
    \/ SchedCancel
    \/ SchedCrash
    \/ SchedStart
    \/ \E u \in Users, s \in StartSlots : Up /\ live = <<>> /\ AddSession(u, s)
    \/ Up /\ RemWake
    \/ RemSent
    \/ RemSendFail
    \/ DripTick

DripSpec == SchedInit /\ [][DripNext]_vars


\* ------------------------------------------------------------------------
\* The due queries and their LIMIT
\* ------------------------------------------------------------------------
\* the limits the queries are run with: the one the loops use, and one
\* that two due rows exceed
SmallLimit == 1
DueLimits == {SmallLimit, DueLimit}
LiveLimits == {SmallLimit, ListLimit}

\* db.list_due_enrollments(limit=...) on the table as it stands
ListDue(limit) ==
    /\ LoopFree
    /\ \E due \in list_due_enrollments(enrollments, limit) :
          last' = [Request("list_due_enrollments") EXCEPT
                      !.limit = limit, !.rows = [i \in DOMAIN due |-> due[i].user_id]]
    /\ UNCHANGED <<loops, cfg, payments, subscriptions, enrollments, remote, now, task, running>>

\* one of the three session queries on the table as it stands
ListLive(kind, limit) ==
    /\ LoopFree
    /\ \E d \in LiveSessionsQuery(live, kind, now, limit) :
          last' = [Request("list_live_sessions_due") EXCEPT
                      !.limit = limit, !.rows = d, !.asked = kind]
    /\ UNCHANGED <<loops, cfg, payments, subscriptions, enrollments, remote, now, task, running>>

\* the queries are read at the start and in the last quarters before the
\* sessions start
PageClock == {LastSlot - 3}
PageTick == ClockTick(PageClock)

\* the two loops share no table: the lesson loop is followed while no
\* session is scheduled, the reminder loop while nobody is enrolled
NoSessions == live = <<>> /\ rem.pc = "sleep"
NoEnrollments == (\A u \in Users : enrollments[u] = NoEnrollment) /\ (\A t \in Tasks : Idle(t))

PageNext ==
    \/ \E t \in DripTasks, u \in Users : NoSessions /\ WelcomeFlow(t, u)
    \/ \E t \in DripTasks : EnsureEnrollment(t)
    \/ \E t \in DripTasks : SendWelcome(t)
    \/ \E t \in DripTasks : SendLesson1(t)
    \/ \E t \in DripTasks : SendFail(t)
    \/ SchedWake
    \/ SchedSent
    \/ SchedSendFail
    \/ \E u \in Users, s \in StartSlots : NoEnrollments /\ AddSession(u, s)
    \/ RemWake
    \/ RemSent
    \/ RemSendFail
    \/ PageTick
    \/ \E limit \in DueLimits : ListDue(limit)
    \/ \E k \in ReminderKinds, limit \in LiveLimits : ListLive(k, limit)

PageSpec == SchedInit /\ [][PageNext]_vars


\* ------------------------------------------------------------------------
\* Reconciliation and the lesson loop in one process
\* ------------------------------------------------------------------------
RaceTasks == {"t1"}

WebhookKinds == {"mp_webhook", "yk_webhook"}
WebhookGateway(kind) == IF kind = "mp_webhook" THEN "mercadopago_pix" ELSE "yookassa"

\* what makes the adapters' _request raise: no connection, no answer within
\* the timeout, an HTTP error status
FetchErrors == {"network", "timeout", "http"}

\* a notification for a row of the ledger whose fetch_payment_status
\* raised: nothing between the adapter and the framework catches, the
\* request ends as an internal server error
WebhookFetchFail(t, kind, external_id, err) ==
    /\ LoopFree /\ Free(t)
    /\ IF kind = "mp_webhook"
       THEN \E h \in LedgerSigHeaders(external_id) : MpSignatureAccepted(external_id, h[1], h[2])
       ELSE cfg.yk
    /\ find_payment_by_external_id(payments, WebhookGateway(kind), external_id) # {}
    /\ Respond(t, [Request(kind) EXCEPT !.ext = external_id, !.looked = TRUE,
                                        !.asked = WebhookGateway(kind), !.fault = err],
               "error500")
    /\ UNCHANGED <<loops, cfg, payments, subscriptions, enrollments, remote, now>>

\* "check payment" for a pending row with an external id whose
\* fetch_payment_status raised: the exception leaves
\* refresh_and_mark_paid_if_needed and on_callback
CheckPaymentFetchFail(t, payment_id, err) ==
    /\ LoopFree /\ Free(t)
    /\ HasPayment(payments, payment_id)
    /\ CheckService(payments[payment_id].provider) # "none"
    /\ payments[payment_id].status # "paid"
    /\ payments[payment_id].external_id # NULL
    /\ Respond(t, [Request("check_payment") EXCEPT !.looked = TRUE, !.fault = err,
                      !.asked = ServiceGateway(CheckService(payments[payment_id].provider))],
               "error500")
    /\ UNCHANGED <<loops, cfg, payments, subscriptions, enrollments, remote, now>>

RaceNext ==
    \/ \E t \in RaceTasks, u \in Users, svc \in {"pay_pix", "pay_yk"} : StartCheckout(t, u, svc)
    \/ \E t \in RaceTasks : CheckoutAttach(t)
    \/ \E t \in RaceTasks : CheckoutCreateFail(t)
    \/ \E g \in RealGateways, e \in GatewayExtIds : GatewayUpdate(g, e)
    \/ \E t \in RaceTasks, e \in GatewayExtIds, body \in Bodies :
       \E h \in LedgerSigHeaders(e) : MpWebhook(t, e, h[1], h[2], body)
    \/ \E t \in RaceTasks, e \in GatewayExtIds, body \in Bodies : YkWebhook(t, e, body)
    \/ \E t \in RaceTasks, k \in WebhookKinds, e \in GatewayExtIds, err \in FetchErrors :
       WebhookFetchFail(t, k, e, err)
    \/ \E t \in RaceTasks, p \in PaymentIds, err \in FetchErrors : CheckPaymentFetchFail(t, p, err)
    \/ \E t \in RaceTasks, p \in PaymentIds : CheckPayment(t, p)
    \/ \E t \in RaceTasks, p \in PaymentIds, c \in Callers : AdminApprove(t, p, c)
    \/ \E t \in RaceTasks : SetSubscription(t)
    \/ \E t \in RaceTasks : EnsureEnrollment(t)
    \/ \E t \in RaceTasks : SendWelcome(t)
    \/ \E t \in RaceTasks : SendLesson1(t)
    \/ \E t \in RaceTasks : SendFail(t)
    \/ \E t \in RaceTasks : Notify(t)
    \/ \E c \in Callers, u \in Users : CmdRevoke(c, u)
    \/ SchedWake
    \/ SchedSent
    \/ SchedSendFail

RaceSpec == SchedInit /\ [][RaceNext]_vars


\* ------------------------------------------------------------------------
\* The two loops and the exceptions of a pass
\* ------------------------------------------------------------------------
LoopTasks == {"t1"}

\* one subscriber, enrolled and with a live session
LoopUsers == {1}

\* the position recorded for a pass that failed with no row at hand
NoRow == NULL

\* max(10, int(cfg.poll_seconds)): the seconds the reminder loop sleeps
MinPollSeconds == 10
PollSeconds == {0, 1, 9, 10, 11, 60}
ReminderSleep(poll_seconds) ==
    IF poll_seconds > MinPollSeconds THEN poll_seconds ELSE MinPollSeconds

\* a pass of the lesson loop raises outside a send, in a call of the store
\* or on reading a row (int(e["user_id"]), e["course_id"]): at the listing,
\* or after a send returned, in the advance; the except around the pass
\* catches it and the loop goes to sleep
SchedPassFail ==
    /\ LoopFree
    /\ \/ /\ sched.pc = "sleep"
          /\ sched' = [SchedIdle EXCEPT !.failed = NoRow]
       \/ /\ sched.pc = "send"
          /\ sched' = [sched EXCEPT !.pc = "sleep", !.pos = 0, !.failed = sched.pos]
    /\ last' = NoResponse
    /\ UNCHANGED <<adapter, live, rem, cfg, payments, subscriptions, enrollments, remote, now, task,
                   running>>

\* the same in the reminder loop: at a listing, or in _send before the send
\* (int(session["id"])) or after it (mark_live_session_reminded)
RemPassFail ==
    /\ \/ /\ rem.pc = "sleep"
          /\ rem' = [RemIdle EXCEPT !.failed = NoRow]
       \/ /\ rem.pc = "send"
          /\ rem' = [RemIdle EXCEPT !.failed = rem.pos]
    /\ UNCHANGED <<adapter, sched, live, cfg, payments, subscriptions, enrollments, remote, now, task,
                   running, last>>

LoopClock == {LessonIntervalDays, LastSlot - 3, LastSlot - 2}

LoopTick == ClockTick(LoopClock)

LoopNext ==
    \/ \E t \in LoopTasks, u \in LoopUsers : WelcomeFlow(t, u)
    \/ \E t \in LoopTasks : EnsureEnrollment(t)
    \/ \E t \in LoopTasks : SendWelcome(t)
    \/ \E t \in LoopTasks : SendLesson1(t)
    \/ \E t \in LoopTasks : SendFail(t)
    \/ SchedWake
    \/ SchedSent
    \/ SchedSendFail
    \/ SchedPassFail
    \/ \E u \in LoopUsers, s \in StartSlots : live = <<>> /\ AddSession(u, s)
    \/ RemWake
    \/ RemSent
    \/ RemSendFail
    \/ RemPassFail
    \/ LoopTick

\* asyncio.sleep returns and the loop is run when the handler that holds
\* the event loop reaches its await: a handler runs on to its await, and a
\* loop that is again and again ready to wake is woken
LoopSpec ==
    /\ SchedInit
    /\ [][LoopNext]_vars
    /\ SF_vars(SchedWake)
    /\ WF_vars(RemWake)
    /\ \A t \in LoopTasks : WF_vars(EnsureEnrollment(t))


\* ------------------------------------------------------------------------
\* A notification during a checkout
\* ------------------------------------------------------------------------
\* the id the gateway issued last
IssuedLast(g) == Cardinality({e \in GatewayExtIds : remote[g][e] # "absent"})

\* start_checkout: provider.create_payment returned, the gateway knows the
\* payment and may notify about it; the row has no external id yet
FlightCreate(t) ==
    /\ running = t /\ task[t].pc = "create"
    /\ LET g == payments[task[t].pid].provider IN
       remote' = [remote EXCEPT ![g][NewExternalId(g, payments[task[t].pid].idempotency_key)] =
                                   "pending"]
    /\ Continue(t, [task[t] EXCEPT !.pc = "attach"], TRUE, Request("start_checkout"))
    /\ UNCHANGED <<loops, cfg, payments, subscriptions, enrollments, now>>

\* start_checkout: attach_checkout_details stores the id
FlightAttach(t) ==
    /\ running = t /\ task[t].pc = "attach"
    /\ payments' = attach_checkout_details(payments, task[t].pid,
                                           IssuedLast(payments[task[t].pid].provider))
    /\ Finish(t, "started")
    /\ UNCHANGED <<loops, cfg, subscriptions, enrollments, remote, now>>

\* the gateway notifies about a payment it holds as paid
PaidNotification(e) ==
    /\ remote["yookassa"][e] = "succeeded"
    /\ \E t \in Tasks, body \in Bodies : YkWebhook(t, e, body)

FlightNext ==
    \/ \E t \in Tasks, u \in Users : StartCheckout(t, u, "pay_yk")
    \/ \E t \in Tasks : FlightCreate(t)
    \/ \E t \in Tasks : FlightAttach(t)
    \/ \E t \in Tasks : CheckoutCreateFail(t)
    \/ \E e \in GatewayExtIds : GatewayUpdate("yookassa", e)
    \/ \E t \in Tasks, e \in GatewayExtIds, body \in Bodies : YkWebhook(t, e, body)
    \/ \E t \in Tasks : SetSubscription(t)
    \/ \E t \in Tasks : EnsureEnrollment(t)
    \/ \E t \in Tasks : SendWelcome(t)
    \/ \E t \in Tasks : SendLesson1(t)
    \/ \E t \in Tasks : SendFail(t)

\* start_checkout has no await: once begun it runs to its end; a handler
\* that holds the loop takes its next step, an awaited send ends (sent or
\* failed); the gateway delivers the notification of a paid payment
FlightSpec ==
    /\ SchedInit
    /\ [][FlightNext]_vars
    /\ \A t \in Tasks : WF_vars(FlightCreate(t) \/ CheckoutCreateFail(t))
    /\ \A t \in Tasks : WF_vars(FlightAttach(t))
    /\ \A t \in Tasks : WF_vars(SetSubscription(t) \/ EnsureEnrollment(t))
    /\ \A t \in Tasks : SF_vars(SendWelcome(t) \/ SendLesson1(t) \/ SendFail(t))
    /\ \A e \in GatewayExtIds : SF_vars(PaidNotification(e))


\* ------------------------------------------------------------------------
\* A grant that did not happen, and the triggers retried
\* ------------------------------------------------------------------------
RetryTasks == {"t1"}

\* db.set_subscription raised: the exception leaves the handler
SetSubscriptionFail(t) ==
    /\ running = t /\ task[t].pc = "setsub"
    /\ Finish(t, "error500")
    /\ UNCHANGED <<loops, cfg, payments, subscriptions, enrollments, remote, now>>

\* the gateway sends its notification for the row again
Redelivery(t, p) ==
    /\ HasPayment(payments, p) /\ payments[p].external_id # NULL
    /\ LET e == payments[p].external_id IN
       IF payments[p].provider = "mercadopago_pix"
       THEN \E h \in LedgerSigHeaders(e), body \in Bodies :
               GenuineSignature(e, h[1], h[2]) /\ MpWebhook(t, e, h[1], h[2], body)
       ELSE \E body \in Bodies : YkWebhook(t, e, body)

\* the payment's trigger is tried again: the notification is redelivered,
\* or the user presses "check payment"
Retrigger(p) ==
    \E t \in RetryTasks : Redelivery(t, p) \/ (HasPayment(payments, p) /\ CheckPayment(t, p))

RetryNext ==
    \/ \E t \in RetryTasks, u \in Users, svc \in {"pay_pix", "pay_yk"} : StartCheckout(t, u, svc)
    \/ \E t \in RetryTasks : CheckoutAttach(t)
    \/ \E t \in RetryTasks : CheckoutCreateFail(t)
    \/ \E g \in RealGateways, e \in GatewayExtIds : GatewayUpdate(g, e)
    \/ \E t \in RetryTasks, p \in PaymentIds : Redelivery(t, p)
    \/ \E t \in RetryTasks, p \in PaymentIds : CheckPayment(t, p)
    \/ \E t \in RetryTasks : SetSubscription(t)
    \/ \E t \in RetryTasks : SetSubscriptionFail(t)
    \/ \E t \in RetryTasks : EnsureEnrollment(t)
    \/ \E t \in RetryTasks : SendWelcome(t)
    \/ \E t \in RetryTasks : SendLesson1(t)
    \/ \E t \in RetryTasks : SendFail(t)
    \/ \E t \in RetryTasks : Notify(t)
    \/ Crash

\* the trigger is retried for as long as it takes, and not every attempt
\* for a payment dies between the two writes; a handler that holds the loop
\* takes its next step and an awaited send ends, unless the process dies
RetrySpec ==
    /\ SchedInit
    /\ [][RetryNext]_vars
    /\ \A p \in PaymentIds : SF_vars(Retrigger(p))
    /\ \A t \in RetryTasks, p \in PaymentIds :
          SF_vars(task[t].pid = p /\ SetSubscription(t))
    /\ \A t \in RetryTasks :
          WF_vars(\/ CheckoutAttach(t) \/ CheckoutCreateFail(t)
                  \/ SetSubscription(t) \/ SetSubscriptionFail(t)
                  \/ EnsureEnrollment(t))
    /\ \A t \in RetryTasks :
          SF_vars(SendWelcome(t) \/ SendLesson1(t) \/ SendFail(t) \/ Notify(t))


\* ------------------------------------------------------------------------
\* The lesson loop under fair scheduling, with a subscriber who cannot be
\* reached
\* ------------------------------------------------------------------------
\* the subscribers whose chat rejects every message (they blocked the bot):
\* bot.send_message to them raises on every attempt, and returns for
\* everybody else
Unreachable == {1}

\* the chat the coroutine t, resp. the lesson loop, is sending to
TaskChat(t) == task[t].uid
SchedChat == sched.due[sched.pos].user_id

FairDelivered(t) ==
    /\ TaskChat(t) \notin Unreachable
    /\ (SendWelcome(t) \/ SendLesson1(t))

FairRejected(t) == TaskChat(t) \in Unreachable /\ SendFail(t)

FairSchedSent == sched.pc = "send" /\ SchedChat \notin Unreachable /\ SchedSent

FairSchedSendFail == sched.pc = "send" /\ SchedChat \in Unreachable /\ SchedSendFail

FairNext ==
    \/ \E t \in DripTasks, u \in Users : WelcomeFlow(t, u)
    \/ \E t \in DripTasks : EnsureEnrollment(t)
    \/ \E t \in DripTasks : FairDelivered(t)
    \/ \E t \in DripTasks : FairRejected(t)
    \/ SchedWake
    \/ FairSchedSent
    \/ FairSchedSendFail
    \/ SchedTick

\* asyncio's loop runs its ready callbacks in turn: a coroutine that is
\* ready again and again is run, a send returns or raises, and the loop's
\* sleep ends
FairSpec ==
    /\ SchedInit /\ [][FairNext]_vars
    /\ SF_vars(SchedWake)
    /\ SF_vars(FairSchedSent)
    /\ SF_vars(FairSchedSendFail)
    /\ \A t \in DripTasks :
          /\ SF_vars(EnsureEnrollment(t))
          /\ SF_vars(FairDelivered(t))
          /\ SF_vars(FairRejected(t))

\* ------------------------------------------------------------------------
\* Properties
\* ------------------------------------------------------------------------
ReconKinds == WebhookKinds \cup {"mock_paid", "check_payment", "admin_approve"}

\* the ledger rows of gateway g that carry external id e
RowsFor(g, e) == {i \in DOMAIN payments : payments[i].provider = g /\ payments[i].external_id = e}

\* the response record l is that of the step on which a notification arrived
Arrival(l) == l.kind \in WebhookKinds /\ l.ext # NULL

Quiescent == \A t \in Tasks : Idle(t)

\* task t has executed its set_subscription
Granted(t) == task[t].pc \in {"ensure", "welcome", "lesson1", "notify"}

\* C1: the status of a payment row only ever changes from pending, to paid,
\* cancelled or expired; a paid or cancelled row keeps its status.
C1_StatusMonotone ==
    [][\A i \in DOMAIN payments :
          payments'[i].status # payments[i].status
             => /\ payments[i].status = "pending"
                /\ payments'[i].status \in {"paid", "cancelled", "expired"}]_vars

\* C2: a notification handler that found the row asks the gateway, and only
\* the gateway's reply decides: when the reply is not paid no row becomes
\* paid and no notification coroutine goes on to grant, whatever the body
\* says; when it is paid the row is paid.
C2_VerdictFromGateway ==
    [][(Arrival(last') /\ last'.looked)
          => LET g == WebhookGateway(last'.kind)
                 reply == fetch_payment_status(g, last'.ext)
             IN RowsFor(g, last'.ext) # {}
                  => /\ last'.asked = g
                     /\ reply = "paid"
                          => \E i \in RowsFor(g, last'.ext) : payments'[i].status = "paid"
                     /\ reply # "paid"
                          => /\ last'.resp = "not_paid"
                             /\ \A i \in DOMAIN payments :
                                   payments'[i].status = "paid" => payments[i].status = "paid"
                             /\ subscriptions' = subscriptions
                             /\ task' = task]_vars

\* a notification whose body claimed success was answered "not paid" on the
\* gateway's word, and the row is still pending
C2_Witness ==
    /\ last.kind \in WebhookKinds /\ last.body = "paid" /\ last.resp = "not_paid"
    /\ last.asked = WebhookGateway(last.kind)
    /\ \E i \in RowsFor(last.asked, last.ext) : payments[i].status = "pending"

\* C3: a handler that re-applies mark-paid to an already paid payment leaves
\* the expiry of the owner's active entitlement as it is and does not send
\* the welcome message again.
C3_ReapplyNoSideEffects ==
    [][\A t \in Tasks :
          (task[t].kind \in ReconKinds /\ ~task[t].first)
             => /\ (task[t].pc = "setsub" /\ subscriptions[task[t].uid].status = "active")
                     => subscriptions'[task[t].uid].expires_at
                           = subscriptions[task[t].uid].expires_at
                /\ ~(/\ task[t].pc = "welcome"
                     /\ \/ task'[t].pc = "lesson1"
                        \/ Idle(t)' /\ last'.resp = "paid")]_vars

\* C4: mark_payment_paid on a paid row changes nothing, issues no UPDATE and
\* returns the owner; on an unknown id it changes nothing and returns None.
\* A coroutine that re-applied it holds the owner's id.
C4_MarkPaidIdempotent ==
    /\ \A pid \in PaymentIds :
          LET r == mark_payment_paid(payments, pid) IN
          /\ ~HasPayment(payments, pid)
                => r.pays = payments /\ r.ret = NULL /\ ~r.wrote
          /\ (HasPayment(payments, pid) /\ payments[pid].status = "paid")
                => r.pays = payments /\ r.ret = payments[pid].user_id /\ ~r.wrote
    /\ \A t \in Tasks :
          (task[t].pc = "setsub" /\ ~task[t].first)
             => /\ payments[task[t].pid].status = "paid"
                /\ task[t].uid = payments[task[t].pid].user_id

\* an operator approval or a notification re-applied mark-paid to a row paid
\* at an earlier time
C4_Witness ==
    \E t \in Tasks :
       /\ task[t].kind \in ReconKinds \ {"check_payment"}
       /\ task[t].pc = "setsub" /\ ~task[t].first
       /\ payments[task[t].pid].paid_at < now

\* C5: of two reconciliation attempts in flight on the same payment at most
\* one applied the transition and at most one granted the entitlement.
C5_ConcurrentOnce ==
    \A t1, t2 \in Tasks :
       (/\ t1 # t2
        /\ task[t1].kind \in ReconKinds /\ task[t2].kind \in ReconKinds
        /\ task[t1].pid = task[t2].pid)
          => /\ ~(task[t1].first /\ task[t2].first)
             /\ ~(Granted(t1) /\ Granted(t2))

C7_BadSignatureRejected ==
    [][(cfg.mp_webhook_secret /\ Arrival(last') /\ last'.kind = "mp_webhook" /\ ~last'.signed)
          => /\ last'.resp = "401"
             /\ ~last'.looked /\ last'.asked = "none"
             /\ UNCHANGED <<payments, subscriptions, enrollments, remote, task>>]_vars

\* a badly signed notification for the external id of a pending MercadoPago
\* payment that the gateway holds approved was rejected
C7_Witness ==
    /\ cfg.mp_webhook_secret /\ last.kind = "mp_webhook" /\ last.resp = "401"
    /\ \E i \in RowsFor("mercadopago_pix", last.ext) :
          payments[i].status = "pending" /\ remote["mercadopago_pix"][last.ext] = "approved"

C9_SendFailureDropped ==
    [][\A t \in Tasks :
          (/\ task[t].kind \in WebhookKinds /\ task[t].first
           /\ task[t].pc \in {"welcome", "lesson1"}
           /\ Idle(t)' /\ last'.kind # "crash")
             => /\ last'.resp = "paid"
                /\ payments'[task[t].pid].status = "paid"
                /\ subscriptions'[task[t].uid].status = "active"
                /\ enrollments'[task[t].uid] # NoEnrollment]_vars

\* C10: when no handler is in flight, the owner of every paid payment has
\* an active entitlement and an enrollment.
C10_PaidImpliesGranted ==
    Quiescent
       => \A i \in DOMAIN payments :
             payments[i].status = "paid"
                => /\ subscriptions[payments[i].user_id].status = "active"
                   /\ enrollments[payments[i].user_id] # NoEnrollment

\* C12: when a pass ends after the send for the row at position K raised,
\* every other row it listed has been advanced.
C12_FailureIsolated ==
    (sched.pc = "sleep" /\ sched.failed # 0)
       => \A i \in 1..Len(sched.due) : i # sched.failed => i \in sched.advanced

C11_CancelFrame ==
    [][\A i \in DOMAIN payments :
          (payments'[i].status = "cancelled" /\ payments[i].status # "cancelled")
             => /\ payments'[i] = [payments[i] EXCEPT !.status = "cancelled"]
                /\ UNCHANGED <<subscriptions, enrollments>>]_vars

\* a row that had been paid was cancelled: its paid_at and the owner's
\* entitlement are still there
C11_Witness ==
    \E i \in DOMAIN payments :
       /\ payments[i].status = "cancelled" /\ payments[i].paid_at # NULL
       /\ payments[i].external_id # NULL
       /\ subscriptions[payments[i].user_id].status = "active"

\* C16: start_checkout has inserted its row, pending and without external id,
\* whenever it stands at the adapter call; a step on which that call fails
\* (the handler leaves the call, no crash, and no external id was attached)
\* changes no ledger row, leaves the new row pending with a null external id,
\* and reports the error to the caller.
C16_AdapterFailure ==
    [][\A t \in Tasks :
         /\ task'[t].pc = "create"
              => /\ HasPayment(payments', task'[t].pid)
                 /\ payments'[task'[t].pid].status = "pending"
                 /\ payments'[task'[t].pid].external_id = NULL
         /\ (/\ task[t].pc = "create" /\ task'[t].pc # "create"
             /\ last'.kind # "crash"
             /\ remote' = remote)
              => /\ payments' = payments
                 /\ payments'[task[t].pid].status = "pending"
                 /\ payments'[task[t].pid].external_id = NULL
                 /\ last'.kind = "start_checkout" /\ last'.resp = "error"]_vars

\* a checkout has just failed at the adapter while another, paid row exists
C16_Witness ==
    /\ last.kind = "start_checkout" /\ last.resp = "error"
    /\ Len(payments) = MaxRows
    /\ payments[Len(payments)].status = "pending"
    /\ payments[Len(payments)].external_id = NULL
    /\ \E i \in DOMAIN payments : payments[i].status = "paid"

\* C17: the ledger only grows, and only by start_checkout: each invocation
\* appends exactly one row, pending, with an id no earlier row has and the
\* idempotency key equal to that id; no step removes a row or changes a
\* row's id, owner, gateway, amount or currency.
C17_AppendOnly ==
    [][/\ Len(payments') >= Len(payments)
       /\ \A i \in DOMAIN payments :
            /\ payments'[i].id = payments[i].id
            /\ payments'[i].user_id = payments[i].user_id
            /\ payments'[i].provider = payments[i].provider
            /\ payments'[i].amount_cents = payments[i].amount_cents
            /\ payments'[i].currency = payments[i].currency
       /\ (\E t \in Tasks : task[t].pc # "create" /\ task'[t].pc = "create")
            <=> Len(payments') = Len(payments) + 1
       /\ Len(payments') # Len(payments)
            => /\ Len(payments') = Len(payments) + 1
               /\ LET row == payments'[Len(payments')] IN
                  /\ \A i \in DOMAIN payments : payments[i].id # row.id
                  /\ row.status = "pending"
                  /\ row.idempotency_key = row.id]_vars

\* a checkout failed at the adapter, and the same user's retry with the same
\* gateway has its own row
C17_Witness ==
    /\ Len(payments) = MaxRows
    /\ \E i, j \in DOMAIN payments :
         /\ i < j
         /\ payments[i].user_id = payments[j].user_id
         /\ payments[i].provider = payments[j].provider
         /\ payments[i].status = "pending" /\ payments[i].external_id = NULL
         /\ payments[j].external_id # NULL
    /\ \A t \in Tasks : Idle(t)

C15_FlagsIndependent ==
    [][/\ \A d \in rem'.sent : SentAt(live[d[1]], d[2]) = NULL
       /\ \A i \in DOMAIN live : \A k \in ReminderKinds :
            /\ SentAt(live[i], k) # NULL => SentAt(live'[i], k) # NULL
            /\ (SentAt(live[i], k) = NULL /\ SentAt(live'[i], k) # NULL)
                 => \A o \in ReminderKinds \ {k} : SentAt(live'[i], o) = SentAt(live[i], o)]_vars

\* a session whose 24h flag was set in an earlier pass has just had its 1h
\* reminder delivered and flagged, its 15m flag still unset
C15_Witness ==
    \E i \in DOMAIN live :
       /\ <<i, "1h">> \in rem.sent
       /\ live[i].remind_1h_sent_at = now
       /\ live[i].remind_24h_sent_at # NULL /\ live[i].remind_24h_sent_at < now
       /\ live[i].remind_15m_sent_at = NULL

\* C19: is_subscribed reports a subscriber entitled exactly when the row
\* exists, is active and its expiry is null or later than now; with no row
\* the reason is no_subscription, with a revoked row revoked, and with an
\* active row whose expiry is at or before now expired.
C19_EntitledExactly ==
    last.kind = "format_status" =>
       LET row == subscriptions[last.user] IN
       /\ last.ok <=> (/\ row # NoSubscription /\ row.status = "active"
                       /\ (row.expires_at = NULL \/ row.expires_at > now))
       /\ row = NoSubscription => last.resp = "no_subscription"
       /\ row.status = "revoked" => last.resp = "revoked"
       /\ (row.status = "active" /\ row.expires_at # NULL /\ row.expires_at <= now)
            => last.resp = "expired"

\* a status query at the very instant an active entitlement expires
C19_Witness ==
    /\ last.kind = "format_status" /\ last.resp = "expired" /\ ~last.ok
    /\ subscriptions[last.user].status = "active"
    /\ subscriptions[last.user].expires_at = now
    /\ now > 0

\* C20: an admin grant of d days at time t leaves the expiry at t + d, and
\* the grant that follows a payment leaves it at t + 30, whatever the expiry
\* was before.
C20_FlatReassignment ==
    [][/\ (last'.kind = "cmd_grant" /\ last'.resp = "granted" /\ last'.days # NULL)
            => /\ subscriptions'[last'.user].status = "active"
               /\ subscriptions'[last'.user].expires_at = now + last'.days
       /\ \A t \in Tasks :
            (task[t].pc = "setsub" /\ task'[t].pc \notin {"setsub", "idle"})
               => /\ subscriptions'[task[t].uid].status = "active"
                  /\ subscriptions'[task[t].uid].expires_at = now + 30]_vars

\* 30 days have just been granted to a subscriber who had more than 30 days
\* left: the window is shorter than it was
C20_Witness ==
    /\ last.kind = "cmd_grant" /\ last.resp = "granted" /\ last.days = 30
    /\ last.prev_expires_at > now + 30
    /\ subscriptions[last.user].expires_at = now + 30

\* C21: a subscriber's entitlement row, once written, is never removed and
\* holds what the last grant or revoke wrote: after a revoke it is revoked
\* with a null expiry and the subscriber is not entitled; after a grant,
\* administrative or paid, it is active and the subscriber is entitled.
C21_LastWriteWins ==
    [][/\ \A u \in Users :
            subscriptions[u] # NoSubscription => subscriptions'[u] # NoSubscription
       /\ (last'.kind = "cmd_revoke" /\ last'.resp = "revoked")
            => /\ subscriptions'[last'.user].status = "revoked"
               /\ subscriptions'[last'.user].expires_at = NULL
               /\ ~is_subscribed(subscriptions', last'.user)[1]
       /\ (last'.kind = "cmd_grant" /\ last'.resp = "granted")
            => /\ subscriptions'[last'.user].status = "active"
               /\ is_subscribed(subscriptions', last'.user)[1]
       /\ \A t \in Tasks :
            (task[t].pc = "setsub" /\ task'[t].pc \notin {"setsub", "idle"})
               => /\ subscriptions'[task[t].uid].status = "active"
                  /\ is_subscribed(subscriptions', task[t].uid)[1]]_vars

\* C22: a manual approval, a grant, a revoke or the scheduling of a live
\* session asked for by someone who is not the configured operator is
\* answered "not allowed" and changes neither the ledger, nor the
\* entitlements, nor the live sessions.
C22_UnauthorizedRejected ==
    [][(/\ last'.kind \in {"admin_approve", "cmd_grant", "cmd_revoke", "cmd_schedule"}
        /\ last'.caller # NULL /\ last'.caller # AdminChatId)
          => /\ last'.resp = "not_allowed"
             /\ UNCHANGED <<payments, subscriptions, live, enrollments>>]_vars

\* a subscriber has just asked to approve their own pending payment and
\* been turned away, the row still pending and no entitlement
C22_Witness ==
    /\ last.kind = "admin_approve" /\ last.caller \in Users /\ last.resp = "not_allowed"
    /\ \E i \in DOMAIN payments :
         /\ payments[i].user_id = last.caller /\ payments[i].status = "pending"
         /\ payments[i].external_id # NULL
         /\ subscriptions[payments[i].user_id] = NoSubscription
    /\ Len(live) > 0

\* C23: what an adapter returns for a gateway status is one of pending, paid
\* and cancelled; Mercado Pago's is paid only for approved and cancelled
\* only for cancelled, rejected, refunded and charged_back; YooKassa's is
\* paid only for succeeded and cancelled only for canceled (in any
\* capitalisation); every other status, an empty or a missing one included,
\* gives pending.
C23_StatusMapping ==
    (last.kind = "fetch_payment_status" /\ last.asked \in RealGateways)
       => /\ last.resp \in {"pending", "paid", "cancelled"}
          /\ last.asked = "mercadopago_pix"
               => /\ last.resp = "paid" <=> last.body \in {"approved", "APPROVED"}
                  /\ last.resp = "cancelled"
                       <=> last.body \in {"cancelled", "rejected", "refunded", "charged_back"}
          /\ last.asked = "yookassa"
               => /\ last.resp = "paid" <=> last.body \in {"succeeded", "Succeeded"}
                  /\ last.resp = "cancelled" <=> last.body = "canceled"
          /\ last.body \in {NoStatus, ""} => last.resp = "pending"

\* Mercado Pago was asked about a payment it holds as authorized, a status
\* outside the adapter's vocabulary, and the adapter answered pending
C23_Witness ==
    /\ last.kind = "fetch_payment_status" /\ last.asked = "mercadopago_pix"
    /\ last.body = "authorized" /\ last.resp = "pending"
    /\ remote["yookassa"][Probe] = NoStatus

\* the step is a fetch_payment_status on the mock
MockFetched(l) == l.kind = "fetch_payment_status" /\ l.asked = "mock"

\* C24 (as claimed): on the mock, a fetch right after a create_payment with a
\* key not used before returns pending; a fetch for an id mark_paid was ever
\* called with returns paid; a fetch for an id the adapter never issued
\* returns pending.
C24_MockRoundTrip ==
    [][MockFetched(last')
         => /\ (/\ last.kind = "create_payment" /\ last.ext = last'.ext
                /\ last.key \notin adapter.retried)
                  => last'.resp = "pending"
            /\ last'.ext \in adapter.ever_paid => last'.resp = "paid"
            /\ last'.ext \notin IssuedIds => last'.resp = "pending"]_vars

\* C24 (amended): on one mock adapter object, a fetch right after a
\* create_payment with a key not used before, for an id no mark_* call was
\* made on, returns pending; a fetch for an id whose last mark_* call was
\* mark_paid returns paid; a fetch for an id that was neither issued nor
\* marked returns pending.
C24_MockRoundTripUnmarked ==
    [][MockFetched(last')
         => /\ (/\ last.kind = "create_payment" /\ last.ext = last'.ext
                /\ last.key \notin adapter.retried
                /\ adapter.marked[last'.ext] = "none")
                  => last'.resp = "pending"
            /\ adapter.marked[last'.ext] = "paid" => last'.resp = "paid"
            /\ (last'.ext \notin IssuedIds /\ adapter.marked[last'.ext] = "none")
                  => last'.resp = "pending"]_vars

\* a fetch for an id that was issued, marked paid, then created again with
\* the same key has just returned paid, and an id neither issued nor marked
\* is still unknown to the adapter
C24_Witness ==
    /\ MockFetched(last) /\ last.resp = "paid"
    /\ last.ext \in IssuedIds /\ adapter.marked[last.ext] = "paid"
    /\ \E pr \in adapter.issued : pr[2] = last.ext /\ pr[1] \in adapter.retried
    /\ \E e \in MockIds : e \notin IssuedIds /\ adapter.marked[e] = "none"
                          /\ remote["mock"][e] = "absent"

\* C25: a create_payment on the mock with a key it was already called with
\* returns the external id it returned before and leaves the mock's record
\* of every payment, the status of this one included, as it was.
C25_RetrySafe ==
    [][(/\ last'.kind = "create_payment"
        /\ \E pr \in adapter.issued : pr[1] = last'.key)
          => /\ \A pr \in adapter.issued : pr[1] = last'.key => pr[2] = last'.ext
             /\ remote'["mock"] = remote["mock"]]_vars

\* a create_payment has just been retried for a payment the mock holds as
\* cancelled, and another payment it holds as paid
C25_Witness ==
    /\ last.kind = "create_payment" /\ last.key \in adapter.retried
    /\ remote["mock"][last.ext] = "cancelled"
    /\ \E e \in IssuedIds : remote["mock"][e] = "paid"

\* C26 (for the paid verdict): a notification handler and a user-triggered
\* status check that found a pending payment paid at the gateway and ran to
\* their end leave the same state: the row paid, the owner's entitlement
\* active, and the owner's lesson schedule seeded.
C26_PathsConverge ==
    [][\A t \in Tasks :
         (/\ task[t].kind \in WebhookKinds \cup {"check_payment"}
          /\ task[t].first
          /\ task'[t] = IdleTask
          /\ last'.resp \in {"paid", "confirmed"})
            => /\ payments'[task[t].pid].status = "paid"
               /\ subscriptions'[task[t].uid].status = "active"
               /\ enrollments'[task[t].uid] # NoEnrollment]_vars

\* C27: a row's lesson index grows only in the step in which the send of
\* its lesson returned (the scheduler's send of the row it stands at, or the
\* welcome flow's send of lesson 1), and then by one, with the next lesson
\* due one course interval from now; a reminder column is written only in
\* the step in which the send of that reminder returned; a step in which
\* the send raised leaves the enrollments and the sessions as they were.
C27_AdvanceAfterSend ==
    [][/\ \A u \in Users :
             (/\ enrollments[u] # NoEnrollment
              /\ enrollments'[u].next_lesson_index > enrollments[u].next_lesson_index)
                => /\ \/ /\ sched.pc = "send" /\ sched'.failed = 0
                         /\ sched.due[sched.pos].user_id = u
                      \/ \E t \in Tasks : task[t].pc = "lesson1" /\ task[t].uid = u
                                          /\ last'.resp # "error500"
                   /\ enrollments'[u].next_lesson_index = enrollments[u].next_lesson_index + 1
                   /\ enrollments'[u].next_lesson_at = now + LessonIntervalDays
       /\ \A i \in DOMAIN live, k \in ReminderKinds :
             SentAt(live'[i], k) # SentAt(live[i], k)
                => /\ rem.pc = "send" /\ rem.due[rem.pos] = i /\ rem.kind = k
                   /\ <<i, k>> \in rem'.sent
       /\ (sched.pc = "send" /\ sched'.failed # 0) => enrollments' = enrollments
       /\ (\E t \in Tasks : task[t].pc \in {"welcome", "lesson1"} /\ last'.resp = "error500")
             => enrollments' = enrollments
       /\ (rem.pc = "send" /\ rem'.pc = "sleep" /\ rem'.sent = {}) => live' = live]_vars

\* a pass advanced its first row and the send for its second row raised,
\* leaving that row as the pass listed it, and a reminder has been sent
C27_Witness ==
    /\ sched.failed = 2 /\ 1 \in sched.advanced
    /\ enrollments[sched.due[2].user_id].next_lesson_index = sched.due[2].next_lesson_index
    /\ enrollments[sched.due[1].user_id].next_lesson_index = sched.due[1].next_lesson_index + 1
    /\ \E i \in DOMAIN live : live[i].remind_15m_sent_at # NULL


\* C28: under fair scheduling, whenever a reachable subscriber's row is due
\* with a lesson of the catalog, that lesson is eventually sent and the
\* row advanced past it, whatever happens to the sends to other subscribers.
C28_DueEventuallyAdvanced ==
    \A u \in Users \ Unreachable : \A idx \in LessonCatalog :
       (/\ enrollments[u] # NoEnrollment
        /\ enrollments[u].next_lesson_index = idx
        /\ enrollments[u].next_lesson_at <= now)
          ~> (enrollments[u].next_lesson_index > idx)

\* the due timestamp of each enrollment, resp. session
LessonDueAt == [u \in Users |-> enrollments[u].next_lesson_at]
SessionDueAt == [i \in DOMAIN live |-> live[i].starts_at]

\* rows is a batch of at most limit of the due entries, in ascending order
\* of due timestamp, and no due entry left out of it is strictly earlier
\* than one in it
EarliestFirst(rows, due, at, limit) ==
    /\ Len(rows) <= limit
    /\ \A i \in DOMAIN rows : rows[i] \in due
    /\ \A i, j \in DOMAIN rows : i < j => rows[i] # rows[j] /\ at[rows[i]] <= at[rows[j]]
    /\ \A x \in due : (\A i \in DOMAIN rows : rows[i] # x)
                         => /\ Len(rows) = limit
                            /\ \A i \in DOMAIN rows : at[rows[i]] <= at[x]

\* C29: every due query returns at most LIMIT rows, the earliest first and
\* none left out that is strictly earlier than a returned one; a lesson pass
\* lists with the limit 50 and a reminder pass with the limit 200, and both
\* walk their list from its first row to its last.
C29_BatchedOldestFirst ==
    [][/\ (last'.kind = "list_due_enrollments" /\ UNCHANGED <<enrollments, sched, task, loops>>)
             => EarliestFirst(last'.rows, DueUsers(enrollments), LessonDueAt, last'.limit)
       /\ (last'.kind = "list_live_sessions_due" /\ UNCHANGED <<enrollments, sched, task, loops>>)
             => EarliestFirst(last'.rows, DueSessions(live, last'.asked, now), SessionDueAt,
                              last'.limit)
       /\ (/\ sched.pc = "sleep" /\ sched'.pc # "stopped"
           /\ sched' # sched \/ enrollments' # enrollments
           /\ task' = task)
             => EarliestFirst([i \in DOMAIN sched'.due |-> sched'.due[i].user_id],
                              DueUsers(enrollments), LessonDueAt, DueLimit)
       /\ (sched.pc = "send" /\ sched'.pc = "send")
             => sched'.due = sched.due /\ sched'.pos >= sched.pos
       /\ (rem'.pc = "send" /\ (rem.pc = "sleep" \/ rem'.kind # rem.kind))
             => /\ rem'.pos = 1
                /\ EarliestFirst(rem'.due, DueSessions(live', rem'.kind, rem'.now),
                                 [i \in DOMAIN live' |-> live'[i].starts_at], ListLimit)
       /\ (rem.pc = "send" /\ rem'.pc = "send" /\ rem'.kind = rem.kind)
             => rem'.due = rem.due /\ rem'.pos \in {rem.pos, rem.pos + 1}]_vars

\* a query limited to one row was run while two enrollments with different
\* due timestamps were due: it returned the earlier one and left the later
\* one out
C29_Witness ==
    /\ last.kind = "list_due_enrollments" /\ last.limit = SmallLimit
    /\ Len(last.rows) = SmallLimit
    /\ \E u \in DueUsers(enrollments) :
          LessonDueAt[u] > LessonDueAt[last.rows[1]]

\* C30: a stop of the process at any point of a pass, by a crash or by the
\* shutdown's cancellation, writes nothing but advancements that were
\* complete: an enrollment that was due is afterwards either still due, as
\* it was, or advanced with its send recorded, and no reminder column
\* changes; the cancellation ends the loop, which runs no pass and writes
\* nothing until the process is started again; and every pass, so the first
\* one after the restart, lists every enrollment that is due.
C30_NoEntryLost ==
    [][/\ (Up /\ ~Up')
             => /\ live' = live
                /\ \A u \in Users :
                      \/ enrollments'[u] = enrollments[u]
                      \/ /\ u \in DueUsers(enrollments)
                         /\ enrollments'[u].last_sent_at = now
                         /\ enrollments'[u].next_lesson_at > now
                         /\ enrollments'[u].next_lesson_index >= enrollments[u].next_lesson_index
       /\ last'.kind = "shutdown"
             => ~Up' /\ enrollments' = enrollments /\ live' = live
       /\ ~Up => /\ enrollments' = enrollments /\ live' = live
                 /\ sched' = sched \/ sched' = SchedIdle
       /\ (/\ sched.pc = "sleep" /\ Up'
           /\ sched' # sched \/ enrollments' # enrollments
           /\ task' = task)
             => \A u \in DueUsers(enrollments) :
                   \E i \in DOMAIN sched'.due : sched'.due[i].user_id = u]_vars

\* the shutdown cancelled the loop while it awaited the send for a row, and
\* the row is as the pass listed it, due and not advanced
C30_Witness ==
    /\ ~Up /\ last.kind = "shutdown" /\ sched.pos >= 1
    /\ LET e == sched.due[sched.pos] IN
       /\ e.user_id \in DueUsers(enrollments)
       /\ enrollments[e.user_id].next_lesson_index = e.next_lesson_index

\* the rows a lesson pass under way has listed and not yet left behind
PassRows ==
    IF sched.pc = "send"
    THEN {sched.due[i].user_id : i \in sched.pos..Len(sched.due)}
    ELSE {}

\* C31: a step of the lesson loop leaves the payments and the subscriptions
\* as they were, and a step of a reconciliation handler (notification,
\* status check, manual approval) writes no enrollment that a lesson pass
\* under way has listed and may still write.
C31_DisjointTables ==
    [][/\ sched' # sched => payments' = payments /\ subscriptions' = subscriptions
       /\ \A t \in Tasks :
             (task[t].kind \in ReconKinds /\ task'[t] # task[t])
                => \A u \in PassRows : enrollments'[u] = enrollments[u]]_vars

\* C32: when fetch_payment_status raises in a notification handler or in
\* the user's status check, the handler does not end as an unhandled
\* fault, and the payments, the subscriptions and the enrollments are as
\* they were.
C32_FetchFailureHandled ==
    [][last'.fault \in FetchErrors
          => /\ last'.resp # "error500"
             /\ payments' = payments
             /\ subscriptions' = subscriptions
             /\ enrollments' = enrollments]_vars

\* C33: an exception in a pass (a failing store call, a failing send, a
\* row that cannot be read) ends neither loop: after a failed pass the loop
\* sleeps, the reminder loop for ten seconds at least, and starts a pass
\* again.
C33_LoopsSurvive ==
    /\ [](sched.pc # "stopped" /\ rem.pc # "stopped")
    /\ [](\A p \in PollSeconds : ReminderSleep(p) >= MinPollSeconds /\ ReminderSleep(p) >= p)
    /\ (sched.failed # 0) ~> (sched.failed = 0)
    /\ (rem.failed # 0) ~> (rem.failed = 0)

C33_Witness ==
    /\ sched.pc = "sleep" /\ sched.failed \in 1..Len(sched.due)
    /\ rem.pc = "sleep" /\ rem.failed \in 1..MaxSessions
    /\ enrollments # [u \in Users |-> NoEnrollment]

\* C34: a pass of the lesson loop takes up only subscribers who are
\* entitled when it lists them, and the loop moves the cursor of no
\* subscriber who is not entitled.
C34_OnlyEntitled ==
    [][sched' # sched
          => /\ (sched.pc = "sleep" /\ sched'.pc = "send")
                   => \A i \in 1..Len(sched'.due) :
                         is_subscribed(subscriptions, sched'.due[i].user_id)[1]
             /\ \A u \in Users :
                   enrollments'[u] # enrollments[u] => is_subscribed(subscriptions, u)[1]]_vars

\* C35: a row becomes paid only in a notification handler or a status
\* check whose gateway reports the row's external id paid, or in an
\* approval by the operator; leaving aside the mock gateway's own rows,
\* which GET /mock/paid pays at the mock gateway, no other request makes a
\* row paid.
C35_PaidByVerdictOrOperator ==
    [][\A p \in DOMAIN payments :
          (payments[p].status # "paid" /\ payments'[p].status = "paid")
             => \E t \in Tasks :
                   /\ task'[t].pid = p
                   /\ \/ /\ task'[t].kind \in WebhookKinds \cup {"check_payment"}
                         /\ payments[p].external_id # NULL
                         /\ fetch_payment_status(payments[p].provider,
                                                 payments[p].external_id) = "paid"
                      \/ /\ task'[t].kind = "admin_approve"
                         /\ last'.caller = AdminChatId
                      \/ /\ task'[t].kind = "mock_paid"
                         /\ payments[p].provider = "mock"]_vars

\* C36: a lesson is delivered to a subscriber whose cursor has not passed
\* it: neither the welcome flow nor a pass of the lesson loop delivers a
\* lesson that the other has delivered already.
C36_LessonOnce ==
    [][\A u \in Users :
          /\ (\E t \in Tasks : /\ task[t].pc = "lesson1" /\ task[t].uid = u
                               /\ task'[t] # task[t] /\ last'.resp # "error500")
                => enrollments[u].next_lesson_index <= 1
          /\ (/\ sched.pc = "send" /\ sched.due[sched.pos].user_id = u
              /\ sched' # sched /\ sched'.failed = 0)
                => enrollments[u].next_lesson_index <= sched.due[sched.pos].next_lesson_index]_vars

GatewayPaid(p) ==
    /\ payments[p].external_id # NULL
    /\ fetch_payment_status(payments[p].provider, payments[p].external_id) = "paid"

KindRank(kind) ==
    CASE kind = "15m" -> 1
      [] kind = "1h" -> 2
      [] kind = "24h" -> 3
      [] OTHER -> 4

\* the reminder columns of a session
Reminded(row) == <<row.remind_15m_sent_at, row.remind_1h_sent_at, row.remind_24h_sent_at>>

\* C40: a reminder column of a session is written only when the send of
\* that reminder returned, in a pass that began at an instant now with
\* now < starts_at <= now + lead; a pass keeps its instant and goes from the
\* 15m reminders to the 1h and then the 24h reminders; and a pass that sent
\* the 15m reminder of a session and came to its end has sent that
\* session's 1h and 24h reminders too, in this pass or before.
C40_ReminderWindow ==
    [][/\ \A i \in DOMAIN live :
             Reminded(live'[i]) # Reminded(live[i])
                => /\ rem.pc = "send" /\ rem.due[rem.pos] = i
                   /\ live' = mark_live_session_reminded(live, i, rem.kind)
                   /\ SentAt(live[i], rem.kind) = NULL
                   /\ rem.now < live[i].starts_at
                   /\ live[i].starts_at <= rem.now + Horizon(rem.kind)
       /\ (rem.pc = "send" /\ rem'.pc = "send")
             => /\ rem'.now = rem.now
                /\ KindRank(rem'.kind) >= KindRank(rem.kind)
       /\ (rem.pc = "send" /\ rem'.pc = "sleep" /\ live' # live)
             => \A i \in DOMAIN live :
                   (/\ live'[i].remind_15m_sent_at # NULL
                    /\ live'[i].remind_15m_sent_at >= rem.now
                    /\ rem.now < live[i].starts_at
                    /\ live[i].starts_at <= rem.now + Horizon15m)
                      => /\ live'[i].remind_1h_sent_at # NULL
                         /\ live'[i].remind_24h_sent_at # NULL]_vars

\* a session first seen less than 15 minutes before its start, all three
\* reminders sent in the one pass
C40_Witness ==
    /\ rem.pc = "sleep" /\ rem.sent # {}
    /\ \E i \in DOMAIN live :
          /\ live[i].remind_15m_sent_at = now
          /\ live[i].remind_1h_sent_at = now
          /\ live[i].remind_24h_sent_at = now
          /\ now < live[i].starts_at /\ live[i].starts_at <= now + Horizon15m

====
